---- MODULE Spec2Model ----
(***************************************************************************)
(* Verification model of the rhythm analyzer (src/rhythm_analyzer.py).     *)
(*                                                                         *)
(* Units.  Times are integer milliseconds.  Tempi are integer milli-BPM    *)
(* (94999 = 94.999 BPM).  Beat-tracker confidences are integers in 1/10000 *)
(* (4990 = 0.499).  Swing is an integer in 1/100 of a percent (5000 = 50). *)
(* Comparisons the code makes on floats are made here on exact rationals   *)
(* by cross-multiplication.                                                *)
(***************************************************************************)
EXTENDS Integers, Sequences, FiniteSets, TLC

VARIABLES
    pc,        \* position of the analysis request: "start" .. "done"
    pass,      \* published pass serving the request: "standard", "ai", "steps"
    tracked,   \* raw output of the beat tracker (before any half-time correction)
    beat,      \* BeatResult returned by detect_beats
    method,    \* 'madmom' or 'librosa'
    halfTime,  \* sequence of half-time corrections applied so far
    grid,      \* (bpm, beats, downbeats) the pass reports and probes
    stem,      \* stem separation of the request: requested, drums file obtained
    hits,      \* list of DrumHit the detector produced (before the pattern filter)
    est,       \* swing and genre estimated from the hits
    result,    \* the response of the pass
    cls,       \* classify_hits: the list of classified onsets
    qz,        \* quantizer requests served so far (latest request and its results)
    sw,        \* swing estimator: the generated hit set and the estimate
    mp,        \* match_pattern: the latest request and its response
    ad,        \* detect_adaptive: the latest request and its response
    pf,        \* filter_hits_by_pattern: the latest call and its result
    gn,        \* detect_genre: the latest call and its result
    rq,        \* one /analyze-rhythm request: its files, its stem separation, its exit
    sep,       \* the stem separator service: its jobs, their files, its tasks
    bb,        \* beat-aligned snare/clap detection on a tracked grid
    dbl        \* half-time doubling of a beat grid: the input and the corrected grid

\* the state of the endpoints outside the analysis passes, classifier, quantizer
\* and swing estimator
extVars == <<mp, ad, pf, gn, rq, sep, bb, dbl>>

vars == <<pc, pass, tracked, beat, method, halfTime, grid, stem, hits, est, result, cls, qz, sw, extVars>>

pipeVars == <<pc, pass, tracked, beat, method, halfTime, grid, stem, hits, est, result>>

(***************************************************************************)
(* Bounds of the model.                                                    *)
(***************************************************************************)
MaxBeats == 3        \* most beats the tracker reports
ProbeWindow == 2     \* the audio has drum energy at the first ProbeWindow 8th-note positions only
MaxHits == 3         \* most hits the detector emits in one analysis
MaxOnsets == 2       \* most onsets classified in one call of classify_hits
MaxQuantHits == 2    \* most hits in one quantizer request
MaxRounds == 2       \* times a client feeds a quantizer result back
MaxSwingBeats == 18  \* most beats of a grid handed to the swing estimator
MaxMatchHits == 2    \* most hits of a free-form /match-pattern request
MaxExisting == 2     \* most existing hits of a /detect-adaptive request
MaxFilterHits == 2   \* most hits handed to the pattern filter on its own
MaxGenreHits == 3    \* most hits handed to the genre detector on its own
MaxPolls == 2        \* polls of a separation job before the polling times out (180 in the code)
DurationMs == 1500   \* duration of the uploaded audio

(***************************************************************************)
(* Generic helpers (Python / numpy built-ins used by the code).            *)
(***************************************************************************)
Abs(x) == IF x < 0 THEN -x ELSE x

Min(a, b) == IF a <= b THEN a ELSE b

Max(a, b) == IF a >= b THEN a ELSE b

SetMin(S) == CHOOSE x \in S : \A y \in S : x <= y

RECURSIVE SortedSeqOfSet(_)
\* sorted(set(xs)) on numbers
SortedSeqOfSet(S) ==
    IF S = {} THEN <<>>
    ELSE LET m == SetMin(S) IN <<m>> \o SortedSeqOfSet(S \ {m})

RECURSIVE SortNums(_)
\* np.sort of a list of numbers (duplicates kept)
SortNums(s) ==
    IF s = <<>> THEN <<>>
    ELSE LET m == SetMin({s[i] : i \in 1..Len(s)})
             k == CHOOSE i \in 1..Len(s) : s[i] = m
         IN <<m>> \o SortNums(SubSeq(s, 1, k - 1) \o SubSeq(s, k + 1, Len(s)))

\* twice np.median(s), exact; s non-empty
MedianX2(s) ==
    LET t == SortNums(s)
        n == Len(t)
    IN IF n % 2 = 1 THEN 2 * t[(n + 1) \div 2]
       ELSE t[n \div 2] + t[n \div 2 + 1]

\* the set of elements of a list
Range(s) == {s[i] : i \in 1..Len(s)}

\* np.diff
Diff(s) == [i \in 1..(Len(s) - 1) |-> s[i + 1] - s[i]]

(***************************************************************************)
(* Half-time correction: midpoint interpolation shared by both correctors. *)
(***************************************************************************)
\* old_beats -> new_beats: a midpoint between every pair of consecutive beats
InterpolateBeats(old) ==
    IF Len(old) = 0 THEN <<>>
    ELSE [i \in 1..(2 * Len(old) - 1) |->
            IF i % 2 = 1 THEN old[(i + 1) \div 2]
            ELSE (old[i \div 2] + old[i \div 2 + 1]) \div 2]

\* downbeats assigned by index: beat_position = (i % 4) + 1
IndexDownbeats(bs) ==
    [i \in 1..Len(bs) |-> [time |-> bs[i], beat_position |-> ((i - 1) % 4) + 1]]

(***************************************************************************)
(* Beat tracking.  The trackers (madmom, librosa) are external: their      *)
(* output is an input of the model, drawn from the sets below.             *)
(***************************************************************************)
\* tempi librosa.beat.beat_track may report (milli-BPM)
TrackerBpms == {20000, 40000, 94999, 95000, 120000}

\* confidences the trackers may report (1/10000)
TrackerConfs == {4990, 5000, 8000}

\* intervals between consecutive tracked beats (ms)
BeatGaps == {480, 720}

RECURSIVE BeatSeqsOfLen(_)
\* beat sequences of n beats, first beat at 0
BeatSeqsOfLen(n) ==
    IF n = 0 THEN {<<>>}
    ELSE IF n = 1 THEN {<<0>>}
    ELSE {Append(s, s[Len(s)] + g) : s \in BeatSeqsOfLen(n - 1), g \in BeatGaps}

TrackerBeats == UNION {BeatSeqsOfLen(n) : n \in 0..MaxBeats}

\* np.arange(0, duration, beat_interval), beat_interval = 60 / bpm rounded down to the ms
SyntheticBeats(bpm) ==
    LET beat_interval == 60000000 \div bpm
        n == (DurationMs + beat_interval - 1) \div beat_interval
    IN [i \in 1..n |-> (i - 1) * beat_interval]

\* rows (time, beat_position) of the downbeat tracker: positions cycle through
\* 1..ts starting at position phase + 1
TrackedDownbeats(bs, ts, phase) ==
    [i \in 1..Len(bs) |-> [time |-> bs[i], beat_position |-> ((i - 1 + phase) % ts) + 1]]

MaxBeatPosition(dbs) ==
    CHOOSE m \in {dbs[i].beat_position : i \in 1..Len(dbs)} :
        \A i \in 1..Len(dbs) : dbs[i].beat_position <= m

\* detect_beats_madmom; bs has at least two beats.  dbOk: the downbeat tracker
\* succeeded (rows with time signature ts and the given phase), else 4/4 by index
detect_beats_madmom(bs, conf, dbOk, ts, phase) ==
    LET median_interval_x2 == MedianX2(Diff(bs))
        downbeats == IF dbOk THEN TrackedDownbeats(bs, ts, phase) ELSE IndexDownbeats(bs)
    IN [bpm |-> 120000000 \div median_interval_x2,
        bpm_confidence |-> conf,
        beats |-> bs,
        downbeats |-> downbeats,
        time_signature |-> IF dbOk THEN MaxBeatPosition(downbeats) ELSE 4]

\* detect_beats_librosa: tempo, beats and onset-strength confidence of the tracker
detect_beats_librosa(bpm, bs, conf) ==
    LET beats == IF Len(bs) < 2 THEN SyntheticBeats(bpm) ELSE bs
    IN [bpm |-> bpm,
        bpm_confidence |-> Min(conf, 10000),
        beats |-> beats,
        downbeats |-> IndexDownbeats(beats),
        time_signature |-> 4]

\* SpectralRule with rule A tested by <= instead of <
SpectralRuleInclusive(b, dense) ==
    IF b.bpm >= 100000 \/ b.bpm_confidence > 7000 THEN "skip"
    ELSE IF b.bpm <= 95000 /\ b.bpm_confidence <= 5000 THEN "A"
    ELSE IF dense THEN "B"
    ELSE "none"

\* the branch correct_half_time_spectral takes; dense: the hi-hat band holds more
\* than 1.5 times the expected transients (density_ratio > 1.5)
SpectralRule(b, dense) ==
    IF b.bpm >= 100000 \/ b.bpm_confidence > 7000 THEN "skip"
    ELSE IF b.bpm < 95000 /\ b.bpm_confidence < 5000 THEN "A"
    ELSE IF dense THEN "B"
    ELSE "none"

correct_half_time_spectral(b, dense) ==
    LET rule == SpectralRule(b, dense)
        new_beats == InterpolateBeats(b.beats)
    IN IF rule = "A" THEN
            [bpm |-> b.bpm * 2,
             bpm_confidence |-> Min((b.bpm_confidence * 13) \div 10, 7000),
             beats |-> new_beats,
             downbeats |-> IndexDownbeats(new_beats),
             time_signature |-> b.time_signature]
       ELSE IF rule = "B" THEN
            [bpm |-> b.bpm * 2,
             bpm_confidence |-> Min((b.bpm_confidence * 12) \div 10, 8500),
             beats |-> new_beats,
             downbeats |-> IndexDownbeats(new_beats),
             time_signature |-> b.time_signature]
       ELSE b

\* correct_half_time_beats: <<bpm, beats, downbeats>>
correct_half_time_beats(bpm, bs, downbeats) ==
    IF bpm >= 90000 THEN [bpm |-> bpm, beats |-> bs, downbeats |-> downbeats]
    ELSE LET corrected_beats == InterpolateBeats(bs)
             idx == {i \in 1..Len(corrected_beats) : (i - 1) % 4 = 0}
             ks == SortedSeqOfSet(idx)
         IN [bpm |-> bpm * 2,
             beats |-> corrected_beats,
             downbeats |-> [k \in 1..Len(ks) |->
                              [time |-> corrected_beats[ks[k]], beat_position |-> 1]]]

(***************************************************************************)
(* Beat-aligned drum detection (Mode A).  The band energies are a property *)
(* of the audio, so which candidates exceed their threshold is an input;   *)
(* the candidate positions are computed as the code computes them.         *)
(***************************************************************************)
\* insertion order of the results dict of detect_drums_beat_aligned
DrumOrder == <<"kick", "snare", "hihat", "clap", "tom", "perc">>

\* eighth_notes: every beat and the midpoint to the next beat
EighthNotes(bs) == InterpolateBeats(bs)

\* kick candidates: entries idx (0-based) of sixteenth_notes whose position_in_bar
\* is one of the probed positions
KickPositions == {0, 8, 4, 12, 2, 6, 10, 14}

KickCandidates(bs, ts) ==
    LET n == Len(bs)
        nSix == IF n = 0 THEN 0 ELSE 4 * (n - 1) + 1
        Probed(idx) == (((idx \div 4) % ts) * 4 + (idx % 4)) \in KickPositions
        TimeAt(idx) ==
            LET i == idx \div 4 + 1
                j == idx % 4
            IN IF j = 0 THEN bs[i] ELSE bs[i] + ((bs[i + 1] - bs[i]) * j) \div 4
    IN {TimeAt(idx) : idx \in {k \in 0..(nSix - 1) : Probed(k)}}

\* snare and clap candidates: beats with beat_in_bar in [1, 3]
BackbeatCandidates(bs, ts) ==
    {bs[i] : i \in {k \in 1..Len(bs) : ((k - 1) % ts) \in {1, 3}}}

HihatCandidates(bs) ==
    LET e == EighthNotes(bs) IN {e[i] : i \in 1..Len(e)}

DetectionCandidates(bs, ts) ==
    ({"kick"} \X KickCandidates(bs, ts))
    \cup ({"snare"} \X BackbeatCandidates(bs, ts))
    \cup ({"hihat"} \X HihatCandidates(bs))
    \cup ({"clap"} \X BackbeatCandidates(bs, ts))

\* the candidates at which the audio has energy
AudibleCandidates(bs, ts) ==
    LET e == EighthNotes(bs)
        audible == {e[i] : i \in 1..Min(Len(e), ProbeWindow)}
    IN {c \in DetectionCandidates(bs, ts) : c[2] \in audible}

RECURSIVE SubsetsUpTo(_, _)
\* the subsets of S with at most k elements
SubsetsUpTo(S, k) ==
    IF k = 0 THEN {{}}
    ELSE LET P == SubsetsUpTo(S, k - 1)
         IN P \cup {T \cup {x} : T \in P, x \in S}

\* a threshold that is a percentile of the candidates' own energies is never
\* exceeded by all of them (kick, clap, hi-hat; the snare has a second condition)
PercentileFeasible(H, bs, ts) ==
    /\ KickCandidates(bs, ts) # {} =>
          \E t \in KickCandidates(bs, ts) : <<"kick", t>> \notin H
    /\ BackbeatCandidates(bs, ts) # {} =>
          \E t \in BackbeatCandidates(bs, ts) : <<"clap", t>> \notin H
    /\ HihatCandidates(bs) # {} =>
          \E t \in HihatCandidates(bs) : <<"hihat", t>> \notin H

\* the result sets the detector can return for a beat grid
DetectionOutcomes(bs, ts) ==
    {H \in SubsetsUpTo(AudibleCandidates(bs, ts), MaxHits) : PercentileFeasible(H, bs, ts)}

RECURSIVE HitsOfDrums(_, _, _)
\* for drum_type, times in results.items(): for t in times: hits.append(DrumHit(...))
HitsOfDrums(H, k, confidence) ==
    IF k > Len(DrumOrder) THEN <<>>
    ELSE LET times == SortedSeqOfSet({h[2] : h \in {x \in H : x[1] = DrumOrder[k]}})
         IN [i \in 1..Len(times) |->
                [time |-> times[i], type |-> DrumOrder[k], confidence |-> confidence]]
            \o HitsOfDrums(H, k + 1, confidence)

RECURSIVE SortByTime(_)
\* hits.sort(key=lambda h: h.time): Python's sort is stable
SortByTime(hs) ==
    IF hs = <<>> THEN <<>>
    ELSE LET m == SetMin({hs[i].time : i \in 1..Len(hs)})
             k == SetMin({i \in 1..Len(hs) : hs[i].time = m})
         IN <<hs[k]>> \o SortByTime(SubSeq(hs, 1, k - 1) \o SubSeq(hs, k + 1, Len(hs)))

(***************************************************************************)
(* Swing estimator.                                                        *)
(***************************************************************************)
\* offbeat ratios (1/100 of a percent) of the hits of beat interval i
OffbeatRatios(hit_times, beats, i, bd2) ==
    LET InBeat(t) == t >= beats[i] /\ t < beats[i + 1]
        \* 0.35 < position < 0.75, position = (hit_time - beat_start) / beat_duration
        Offbeat(t) == /\ 35 * bd2 < 200 * (t - beats[i])
                      /\ 200 * (t - beats[i]) < 75 * bd2
        sel == SelectSeq(hit_times, LAMBDA t : InBeat(t) /\ Offbeat(t))
    IN [k \in 1..Len(sel) |-> (20000 * (sel[k] - beats[i])) \div bd2]

RECURSIVE AllOffbeatRatios(_, _, _, _)
AllOffbeatRatios(hit_times, beats, i, bd2) ==
    IF i > Len(beats) - 1 THEN <<>>
    ELSE OffbeatRatios(hit_times, beats, i, bd2)
         \o AllOffbeatRatios(hit_times, beats, i + 1, bd2)

\* detect_swing(hits, beats, time_signature), on the hit times
detect_swing(hit_times, beats) ==
    IF Len(hit_times) < 4 \/ Len(beats) < 2 THEN 5000
    ELSE LET bd2 == MedianX2(Diff(beats))
             offbeat_ratios == AllOffbeatRatios(hit_times, beats, 1, bd2)
         IN IF Len(offbeat_ratios) < 2 THEN 5000
            ELSE Max(4000, Min(7500, MedianX2(offbeat_ratios) \div 2))

HitTimes(hs) == [i \in 1..Len(hs) |-> hs[i].time]

(***************************************************************************)
(* Genre heuristic.  Scores are in 1/100.                                  *)
(***************************************************************************)
GenreOrder == <<"edm", "afro_house", "trap", "pop", "hip_hop", "kpop">>

CountType(hs, ty) == Cardinality({i \in 1..Len(hs) : hs[i].type = ty})

B2I(b) == IF b THEN 1 ELSE 0

\* genre_scores: -1 where the bpm window excludes the genre
GenreScores(bpm, hs, swing) ==
    LET total == Max(Len(hs), 1)
        kick == CountType(hs, "kick")
        snare == CountType(hs, "snare")
        clap == CountType(hs, "clap")
        hihat == CountType(hs, "hihat")
        \* ratio > p/100, ratio < p/100
        Gt(c, p) == c * 100 > p * total
        Lt(c, p) == c * 100 < p * total
    IN [g \in {GenreOrder[i] : i \in 1..Len(GenreOrder)} |->
        CASE g = "edm" ->
               IF 118000 <= bpm /\ bpm <= 138000
               THEN Min(100, 50 + 20 * B2I(Gt(kick, 15))
                                + 15 * B2I(Gt(clap, 8) \/ Gt(snare, 8))
                                + 15 * B2I(Abs(swing - 5000) < 500))
               ELSE -1
          [] g = "afro_house" ->
               IF 115000 <= bpm /\ bpm <= 130000
               THEN Min(100, 40 + 15 * B2I(Lt(kick, 15))
                                + 25 * B2I(swing > 5400)
                                + 15 * B2I(Gt(hihat, 20)))
               ELSE -1
          [] g = "trap" ->
               IF (60000 <= bpm /\ bpm <= 90000) \/ (130000 <= bpm /\ bpm <= 180000)
               THEN Min(100, 40 + 20 * B2I(Lt(snare, 8))
                                + 20 * B2I(Gt(hihat, 30))
                                + 15 * B2I(Lt(kick, 12)))
               ELSE -1
          [] g = "pop" ->
               IF 85000 <= bpm /\ bpm <= 135000
               THEN Min(100, 35 + 20 * B2I(Gt(snare, 8))
                                + 15 * B2I(Gt(kick, 8) /\ Lt(kick, 25))
                                + 15 * B2I(4800 <= swing /\ swing <= 5500))
               ELSE -1
          [] g = "hip_hop" ->
               IF 80000 <= bpm /\ bpm <= 120000
               THEN Min(100, 35 + 25 * B2I(5200 <= swing /\ swing <= 6200)
                                + 15 * B2I(Gt(snare, 6))
                                + 15 * B2I(Gt(kick, 6) /\ Lt(kick, 20)))
               ELSE -1
          [] OTHER ->
               IF 95000 <= bpm /\ bpm <= 145000
               THEN Min(100, 30 + 20 * B2I(Gt(kick, 12) /\ Gt(snare, 8))
                                + 15 * B2I(Gt(clap, 5)))
               ELSE -1]

\* variant of detect_genre that returns the best genre whatever its score
detect_genre_no_threshold(bpm, hs, swing) ==
    LET sc == GenreScores(bpm, hs, swing)
        present == {i \in 1..Len(GenreOrder) : sc[GenreOrder[i]] >= 0}
    IN IF present = {} THEN [genre |-> "none", confidence |-> 0]
       ELSE LET b == SetMin({i \in present :
                                \A j \in present : sc[GenreOrder[j]] <= sc[GenreOrder[i]]})
            IN [genre |-> GenreOrder[b], confidence |-> sc[GenreOrder[b]]]

\* detect_genre: (genre, confidence); "none" is Python's None
detect_genre(bpm, hs, swing) ==
    LET sc == GenreScores(bpm, hs, swing)
        present == {i \in 1..Len(GenreOrder) : sc[GenreOrder[i]] >= 0}
    IN IF present = {} THEN [genre |-> "none", confidence |-> 0]
       ELSE LET \* max(genre_scores, key=genre_scores.get): first maximum in insertion order
                b == SetMin({i \in present :
                                \A j \in present : sc[GenreOrder[j]] <= sc[GenreOrder[i]]})
            IN IF sc[GenreOrder[b]] < 50 THEN [genre |-> "none", confidence |-> 0]
               ELSE [genre |-> GenreOrder[b], confidence |-> sc[GenreOrder[b]]]

(***************************************************************************)
(* Classifier.  Feature ratios, flatness, zero-crossing rate, centroid and *)
(* beat positions are integers in 1/1000, decay_time is in ms, scores are  *)
(* in 1/1000 and confidences in 1/10000 (rounded down).  A feature vector  *)
(* holds the features the rules read; NoBeat is Python's None.             *)
(***************************************************************************)
NoBeat == -1

\* sum(scores.values())
SumScores(sc) == sc.kick + sc.snare + sc.hihat + sc.clap + sc.tom + sc.perc

\* max(scores, key=scores.get): the first maximum in insertion order
BestType(sc) ==
    LET k == SetMin({i \in 1..Len(DrumOrder) :
                        \A j \in 1..Len(DrumOrder) : sc[DrumOrder[j]] <= sc[DrumOrder[i]]})
    IN DrumOrder[k]

\* sorted(scores.values(), reverse=True)[1]
SecondScore(sc) == SortNums([i \in 1..Len(DrumOrder) |-> sc[DrumOrder[i]]])[Len(DrumOrder) - 1]

\* best_score / total_score if total_score > 0 else 0.5, then the dominance boost
\* min(confidence * boost, 0.95) when best > second * margin (boost, margin in 1/10)
ScoreConfidence(sc, margin, boost) ==
    LET best_score == sc[BestType(sc)]
        total_score == SumScores(sc)
        confidence == IF total_score > 0 THEN (best_score * 10000) \div total_score ELSE 5000
    IN IF best_score * 10 > SecondScore(sc) * margin
       THEN Min((confidence * boost) \div 10, 9500)
       ELSE confidence

\* the scores of classify_hit_rules (full mix) after pattern-aware boosting
FullMixScores(f, beat_position) ==
    LET low == f.low_energy_ratio
        mid == f.mid_energy_ratio
        all_high == f.all_high_ratio
        centroid == f.spectral_centroid
        decay == f.decay_time
        flatness == f.spectral_flatness
        zcr == f.zero_crossing_rate
        total_energy == low + mid + all_high + 1
        \* x / total_energy > p / 1000
        Dom(x, p) == x * 1000 > p * total_energy
        kick == (IF centroid < 150 THEN 600 ELSE IF centroid < 220 THEN 300 ELSE 0)
                + (IF Dom(low, 500) THEN 300 ELSE IF Dom(low, 420) THEN 150 ELSE 0)
                + 200 * B2I(low * 10 > all_high * 25)
                - 300 * B2I(centroid > 300)
                - 300 * B2I(centroid > 400)
        hihat == (IF centroid > 500 THEN 500 ELSE IF centroid > 400 THEN 350
                  ELSE IF centroid > 320 THEN 150 ELSE 0)
                 + (IF decay < 12 THEN 250 ELSE IF decay < 20 THEN 150 ELSE 0)
                 + (IF Dom(all_high, 350) THEN 200 ELSE IF Dom(all_high, 250) THEN 100 ELSE 0)
                 + 150 * B2I(f.hihat_band_ratio > 100)
                 - 300 * B2I(Dom(low, 400))
        snare == 300 * B2I(220 < centroid /\ centroid < 480)
                 + (IF flatness > 280 THEN 350 ELSE IF flatness > 200 THEN 200 ELSE 0)
                 + (IF zcr > 70 THEN 200 ELSE IF zcr > 50 THEN 100 ELSE 0)
                 + 150 * B2I(Dom(mid, 220))
                 + 100 * B2I(f.high_mid_ratio > 100)
                 + 100 * B2I(10 < decay /\ decay < 50)
        clap == 400 * B2I(flatness > 420)
                + 200 * B2I(flatness > 500)
                + 200 * B2I(zcr > 100)
                + 100 * B2I(250 < centroid /\ centroid < 450)
        tom == 350 * B2I(flatness < 220 /\ decay > 30)
               + 150 * B2I(f.low_mid_ratio > 120)
               + 150 * B2I(150 < centroid /\ centroid < 350)
        on_beat == beat_position # NoBeat /\ (beat_position < 100 \/ beat_position > 900)
        on_offbeat == beat_position # NoBeat /\ 400 < beat_position /\ beat_position < 600
    IN [kick |-> IF on_beat THEN (kick * 13) \div 10 ELSE kick,
        snare |-> snare,
        hihat |-> IF on_offbeat THEN (hihat * 12) \div 10 ELSE hihat,
        clap |-> clap,
        tom |-> tom,
        perc |-> 80]

\* classify_hit_rules: (best_type, confidence)
classify_hit_rules(f, beat_position) ==
    LET sc == FullMixScores(f, beat_position)
    IN [type |-> BestType(sc), confidence |-> ScoreConfidence(sc, 15, 12)]

\* the scores of classify_hit_rules_drums_stem after the beat position boost
DrumsStemScores(f, beat_position) ==
    LET low == f.low_energy_ratio
        mid == f.mid_energy_ratio
        high == f.high_energy_ratio
        centroid == f.spectral_centroid
        decay == f.decay_time
        flatness == f.spectral_flatness
        zcr == f.zero_crossing_rate
        kick == (IF low > 350 THEN 700 ELSE IF low > 250 THEN 500
                 ELSE IF low > 150 THEN 250 ELSE 0)
                + (IF centroid < 200 THEN 300 ELSE IF centroid < 300 THEN 150 ELSE 0)
                - 400 * B2I(centroid > 400)
                - 300 * B2I(high > low)
        hihat == (IF high > 250 THEN 600 ELSE IF high > 150 THEN 400
                  ELSE IF high > 100 THEN 200 ELSE 0)
                 + (IF centroid > 500 THEN 400 ELSE IF centroid > 400 THEN 250
                    ELSE IF centroid > 350 THEN 100 ELSE 0)
                 + 200 * B2I(decay < 15)
                 - 400 * B2I(low > 250)
        snare == (IF flatness > 300 THEN 400 ELSE IF flatness > 220 THEN 250 ELSE 0)
                 + (IF zcr > 80 THEN 250 ELSE IF zcr > 50 THEN 150 ELSE 0)
                 + 250 * B2I(250 < centroid /\ centroid < 500)
                 + 200 * B2I(mid > 200)
                 + 150 * B2I(f.high_mid_ratio > 120)
        clap == 500 * B2I(flatness > 450)
                + 300 * B2I(zcr > 120)
                + 150 * B2I(300 < centroid /\ centroid < 500)
        tom == 400 * B2I(flatness < 200 /\ decay > 35)
               + 200 * B2I(180 < centroid /\ centroid < 350)
               + 200 * B2I(100 < low /\ low < 300 /\ mid > 150)
        on_beat == beat_position # NoBeat /\ (beat_position < 120 \/ beat_position > 880)
    IN [kick |-> IF on_beat THEN (kick * 12) \div 10 ELSE kick,
        snare |-> snare,
        hihat |-> hihat,
        clap |-> clap,
        tom |-> tom,
        perc |-> 50]

\* classify_hit_rules_drums_stem: (best_type, confidence)
classify_hit_rules_drums_stem(f, beat_position) ==
    LET sc == DrumsStemScores(f, beat_position)
    IN [type |-> BestType(sc), confidence |-> ScoreConfidence(sc, 18, 13)]

\* beat_positions[onset_time] and beat_numbers[onset_time] of classify_hits;
\* beats has at least two beats
BeatPhase(onset_time, beats, time_signature) ==
    LET n == Len(beats)
        beat_duration_x2 == MedianX2(Diff(beats))
        \* np.argmin(np.abs(beats - onset_time)): the first nearest beat
        beat_idx == SetMin({i \in 1..n :
                        \A j \in 1..n : Abs(beats[i] - onset_time) <= Abs(beats[j] - onset_time)})
        beat_time == beats[beat_idx]
        pos == IF onset_time >= beat_time
               THEN IF beat_idx < n
                    THEN ((onset_time - beat_time) * 1000) \div (beats[beat_idx + 1] - beat_time)
                    ELSE ((onset_time - beat_time) * 2000) \div beat_duration_x2
               ELSE IF beat_idx > 1
                    THEN 1000 - ((beat_time - onset_time) * 1000)
                                    \div (beat_time - beats[beat_idx - 1])
                    ELSE 0
    IN [pos |-> Min(Max(pos, 0), 1000), num |-> ((beat_idx - 1) % time_signature) + 1]

\* the body of the loop of classify_hits for an onset with features f, given the
\* phase ph the rules see (NoBeat when beats is None or has fewer than two
\* entries).  The rule-based branches only: no trained classifier file ships
\* with the repository
ClassifyAtPhase(f, ph, is_drums_stem) ==
    LET r == IF is_drums_stem THEN classify_hit_rules_drums_stem(f, ph.pos)
             ELSE classify_hit_rules(f, ph.pos)
        near == ph.pos # NoBeat /\ ph.pos < 150
        \* snare/clap on beats 2 and 4
        scores_snare == 300 + 200 * B2I(f.mid_energy_ratio > 150)
                            + 150 * B2I(f.spectral_flatness > 200)
        r2 == IF ph.num \in {2, 4} /\ near
              THEN IF r.type \in {"snare", "clap"}
                   THEN [type |-> r.type, confidence |-> Min((r.confidence * 12) \div 10, 9500)]
                   ELSE IF f.mid_energy_ratio > 120 /\ scores_snare > 500
                   THEN [type |-> "snare", confidence |-> Min(6000, r.confidence)]
                   ELSE r
              ELSE r
        \* kick on beats 1 and 3
        r3 == IF ph.num \in {1, 3} /\ near
              THEN IF r2.type = "kick"
                   THEN [type |-> "kick", confidence |-> Min((r2.confidence * 12) \div 10, 9500)]
                   ELSE IF f.low_energy_ratio > 150
                           /\ f.low_energy_ratio > f.high_energy_ratio
                   THEN [type |-> "kick", confidence |-> Min(6000, r2.confidence)]
                   ELSE r2
              ELSE r2
    IN r3

\* beat_pos, beat_num of classify_hits; beats = <<>> stands for beats=None
OnsetPhase(onset_time, beats, time_signature) ==
    IF Len(beats) > 1 THEN BeatPhase(onset_time, beats, time_signature)
    ELSE [pos |-> NoBeat, num |-> 0]

\* variant of ClassifyOnset whose boosts count beats from the start of the audio
\* instead of within the bar
ClassifyOnsetAbsoluteBeat(f, onset_time, beats, time_signature, is_drums_stem) ==
    LET ph == OnsetPhase(onset_time, beats, time_signature)
        seen == IF Len(beats) > 1
                THEN [pos |-> ph.pos,
                      num |-> BeatPhase(onset_time, beats, Len(beats) + 1).num]
                ELSE ph
        r == ClassifyAtPhase(f, seen, is_drums_stem)
    IN [time |-> onset_time, type |-> r.type, confidence |-> r.confidence,
        features |-> f, beat_pos |-> ph.pos, beat_num |-> ph.num]

\* one iteration of the loop of classify_hits: the DrumHit appended for the onset,
\* with the phase it was classified at
ClassifyOnset(f, onset_time, beats, time_signature, is_drums_stem) ==
    LET ph == OnsetPhase(onset_time, beats, time_signature)
        r == ClassifyAtPhase(f, ph, is_drums_stem)
    IN [time |-> onset_time, type |-> r.type, confidence |-> r.confidence,
        features |-> f, beat_pos |-> ph.pos, beat_num |-> ph.num]

\* the dict returned by extract_hit_features, restricted to the keys the rules
\* read: the energy ratios of the bands 20-200 Hz, 200-500 Hz, 500-2000 Hz,
\* 2-6 kHz and 6-20 kHz, then centroid, flatness and decay
Features(low, low_mid, mid, high_mid, high, centroid, flatness, decay) ==
    [low_energy_ratio |-> low, low_mid_ratio |-> low_mid,
     mid_energy_ratio |-> mid, high_mid_ratio |-> high_mid,
     high_energy_ratio |-> high,
     hihat_band_ratio |-> (high * 8) \div 10,
     all_high_ratio |-> high_mid + high,
     decay_time |-> decay, spectral_flatness |-> flatness,
     zero_crossing_rate |-> 30, spectral_centroid |-> centroid]

\* get_default_features
DefaultFeatures ==
    [low_energy_ratio |-> 250, low_mid_ratio |-> 150,
     mid_energy_ratio |-> 250, high_mid_ratio |-> 150,
     high_energy_ratio |-> 200, hihat_band_ratio |-> 100,
     all_high_ratio |-> 350,
     decay_time |-> 30, spectral_flatness |-> 500,
     zero_crossing_rate |-> 100, spectral_centroid |-> 500]

\* the feature vectors extract_hit_features returns for the onset windows of
\* the model: a kick, a snare, a closed hi-hat, a clap, a tom, three windows in
\* which a kick or a tom sounds together with a cymbal, and a window too short
\* to analyse.  No two drum scores of these windows tie for the maximum, so the
\* float sums of the code and the integer sums here pick the same type
FeatureVectors ==
    { Features(600, 150, 150, 50, 40, 100, 100, 8),
      Features(200, 100, 300, 300, 90, 280, 300, 15),
      Features(50, 50, 100, 110, 680, 420, 250, 15),
      Features(400, 100, 180, 50, 260, 280, 550, 8),
      Features(100, 150, 450, 200, 90, 180, 100, 40),
      Features(400, 100, 180, 50, 260, 550, 250, 40),
      Features(400, 100, 180, 50, 260, 420, 100, 15),
      Features(200, 100, 300, 300, 90, 550, 100, 40),
      DefaultFeatures }

(***************************************************************************)
(* Pattern filter.  Expected positions are in quarter beats (4 = 1 beat).  *)
(***************************************************************************)
Evens16 == {2 * i : i \in 0..7}

All16 == 0..15

\* EXPECTED_POSITIONS[drum_type], [] for a genre the table does not list
ExpectedTable(drum_type) ==
    CASE drum_type = "kick" ->
           [edm |-> {0, 4, 8, 12}, pop |-> {0, 8}, trap |-> {0, 10},
            afro_house |-> {0, 8}, default |-> {0, 8}]
      [] drum_type \in {"snare", "clap"} ->
           [edm |-> {4, 12}, pop |-> {4, 12}, trap |-> {8},
            afro_house |-> {4, 12}, default |-> {4, 12}]
      [] drum_type = "hihat" ->
           [edm |-> Evens16, pop |-> Evens16, trap |-> All16,
            afro_house |-> Evens16, default |-> Evens16]
      [] drum_type = "tom" -> [default |-> Evens16]
      [] drum_type = "perc" -> [default |-> All16]
      [] OTHER -> [default |-> Evens16]

\* positions_dict.get(genre, positions_dict.get('default', []))
ExpectedPositions(drum_type, genre) ==
    LET d == ExpectedTable(drum_type)
    IN IF genre \in DOMAIN d THEN d[genre] ELSE d["default"]

\* the test filter_hits_by_pattern applies to one hit.  With B = bpm in milli-BPM,
\* beat_duration * B = 60000000 ms, so every quantity is scaled by B
HitIsExpected(hit, bpm, downbeat_time, time_signature, genre, tolerance_ms) ==
    LET time_from_downbeat == hit.time - downbeat_time
        barB == 60000000 * time_signature
        posB == (time_from_downbeat * bpm) % barB
    IN /\ time_from_downbeat >= 0
       /\ \E e \in ExpectedPositions(hit.type, genre) :
             Abs(posB - e * 15000000) <= tolerance_ms * bpm

RECURSIVE filter_hits_no_break(_, _, _, _, _, _)
\* filter_hits_by_pattern without the break of its inner loop: a hit is appended
\* once per expected position it is near
filter_hits_no_break(hs, bpm, downbeat_time, time_signature, genre, tolerance_ms) ==
    IF hs = <<>> THEN <<>>
    ELSE LET h == Head(hs)
             tfd == h.time - downbeat_time
             posB == (tfd * bpm) % (60000000 * time_signature)
             near == {e \in ExpectedPositions(h.type, genre) :
                        tfd >= 0 /\ Abs(posB - e * 15000000) <= tolerance_ms * bpm}
         IN [i \in 1..Cardinality(near) |-> h]
            \o filter_hits_no_break(Tail(hs), bpm, downbeat_time, time_signature,
                                    genre, tolerance_ms)

filter_hits_by_pattern(hs, bpm, downbeat_time, time_signature, genre, tolerance_ms) ==
    SelectSeq(hs, LAMBDA h :
        HitIsExpected(h, bpm, downbeat_time, time_signature, genre, tolerance_ms))

\* pattern_tolerance_ms values of the requests
Tolerances == {40, 100, 160}

(***************************************************************************)
(* Quantizer and pattern library.  Times are integer microseconds and      *)
(* tempi whole BPM here; swing and quantize_strength are whole percents.   *)
(* The tempi of the model have a beat duration that is a binary fraction,  *)
(* so every float operation of the code is exact on the model's inputs and *)
(* Python's round() sees the exact halves the integers show.               *)
(***************************************************************************)
\* round(n / d) for d > 0: Python 3 rounds halves to the even integer
RoundHalfEven(n, d) ==
    LET q == n \div d
        r == n % d
    IN IF 2 * r < d THEN q
       ELSE IF 2 * r > d THEN q + 1
       ELSE IF q % 2 = 0 THEN q ELSE q + 1

\* beat_duration = 60.0 / bpm
BeatDuration(bpm) == 60000000 \div bpm

\* the loop body of quantize_to_grid for one hit
QuantizeHit(hit, bpm, downbeat_offset, swing, quantize_strength, subdivision) ==
    LET beat_duration == BeatDuration(bpm)
        grid_duration == beat_duration \div subdivision
        swing_offset == ((swing - 50) * grid_duration) \div 100
        rel_time == hit.time - downbeat_offset
        grid_index == RoundHalfEven(rel_time, grid_duration)
        grid_time == (IF grid_index % 2 = 1
                      THEN grid_index * grid_duration + swing_offset
                      ELSE grid_index * grid_duration) + downbeat_offset
        quantized_time == hit.time + ((grid_time - hit.time) * quantize_strength) \div 100
        \* total_beats = rel_time / beat_duration
        bar == rel_time \div (4 * beat_duration) + 1
        beat_in_bar == (rel_time % (4 * beat_duration)) \div beat_duration + 1
        subbeat == ((rel_time % beat_duration) * subdivision) \div beat_duration + 1
    IN [hit |-> [time |-> quantized_time, type |-> hit.type],
        position |-> [bar |-> bar, beat |-> beat_in_bar, subbeat |-> subbeat,
                      original_time |-> hit.time, quantized_time |-> quantized_time]]

\* quantize_to_grid: (quantized_hits, grid_positions)
quantize_to_grid(hs, bpm, downbeat_offset, swing, quantize_strength, subdivision) ==
    [hits |-> [i \in 1..Len(hs) |->
                  QuantizeHit(hs[i], bpm, downbeat_offset, swing, quantize_strength,
                              subdivision).hit],
     grid_positions |-> [i \in 1..Len(hs) |->
                  QuantizeHit(hs[i], bpm, downbeat_offset, swing, quantize_strength,
                              subdivision).position]]

\* variant of quantize_instrument that quantizes the hits of every drum type
quantize_instrument_all(hs, drum_type, bpm, downbeat_offset, swing, quantize_strength, subdivision) ==
    IF hs = <<>> THEN [hits |-> <<>>, grid_positions |-> <<>>]
    ELSE quantize_to_grid(hs, bpm, downbeat_offset, swing, quantize_strength, subdivision)

\* /quantize-instrument: the hits of drum_type only
quantize_instrument(hs, drum_type, bpm, downbeat_offset, swing, quantize_strength, subdivision) ==
    LET instrument_hits == SelectSeq(hs, LAMBDA h : h.type = drum_type)
    IN IF instrument_hits = <<>> THEN [hits |-> <<>>, grid_positions |-> <<>>]
       ELSE quantize_to_grid(instrument_hits, bpm, downbeat_offset, swing,
                             quantize_strength, subdivision)

\* the 16-step patterns of the library, in dictionary order; a drum the pattern
\* does not name has the empty step set
KNOWN_PATTERNS ==
    <<
      [id |-> "pop_standard", kick |-> {0, 8}, snare |-> {4, 12}, hihat |-> Evens16,
       clap |-> {}, tom |-> {}, perc |-> {}, swing |-> 50],
      [id |-> "pop_four_on_floor", kick |-> {0, 4, 8, 12}, snare |-> {4, 12}, hihat |-> Evens16,
       clap |-> {}, tom |-> {}, perc |-> {}, swing |-> 50],
      [id |-> "pop_halftime", kick |-> {0}, snare |-> {8}, hihat |-> Evens16,
       clap |-> {}, tom |-> {}, perc |-> {}, swing |-> 50],
      [id |-> "pop_syncopated", kick |-> {0, 6, 10}, snare |-> {4, 12}, hihat |-> Evens16,
       clap |-> {}, tom |-> {}, perc |-> {}, swing |-> 52],
      [id |-> "edm_four_on_floor", kick |-> {0, 4, 8, 12}, snare |-> {4, 12}, hihat |-> {2, 6, 10, 14},
       clap |-> {4, 12}, tom |-> {}, perc |-> {}, swing |-> 0],
      [id |-> "edm_offbeat_house", kick |-> {0, 4, 8, 12}, snare |-> {4, 12}, hihat |-> {1, 3, 5, 7, 9, 11, 13, 15},
       clap |-> {4, 12}, tom |-> {}, perc |-> {}, swing |-> 0],
      [id |-> "edm_techno", kick |-> {0, 4, 8, 12}, snare |-> {4, 12}, hihat |-> Evens16,
       clap |-> {4, 12}, tom |-> {}, perc |-> {}, swing |-> 0],
      [id |-> "edm_dubstep", kick |-> {0}, snare |-> {8}, hihat |-> Evens16,
       clap |-> {}, tom |-> {}, perc |-> {}, swing |-> 0],
      [id |-> "afro_foundation", kick |-> {0, 8}, snare |-> {}, hihat |-> {},
       clap |-> {}, tom |-> {}, perc |-> Evens16, swing |-> 60],
      [id |-> "afro_minimal", kick |-> {0, 8}, snare |-> {}, hihat |-> {},
       clap |-> {}, tom |-> {}, perc |-> Evens16, swing |-> 58],
      [id |-> "trap_basic", kick |-> {0, 10}, snare |-> {8}, hihat |-> All16,
       clap |-> {}, tom |-> {}, perc |-> {}, swing |-> 0],
      [id |-> "trap_rolling", kick |-> {0, 6, 10}, snare |-> {8}, hihat |-> All16,
       clap |-> {}, tom |-> {}, perc |-> {}, swing |-> 0],
      [id |-> "hiphop_boom_bap", kick |-> {0, 5, 8, 10}, snare |-> {4, 12}, hihat |-> Evens16,
       clap |-> {}, tom |-> {}, perc |-> {}, swing |-> 55],
      [id |-> "kpop_chorus", kick |-> {0, 4, 8, 12}, snare |-> {4, 12}, hihat |-> Evens16,
       clap |-> {4, 12}, tom |-> {}, perc |-> {}, swing |-> 50],
      [id |-> "kpop_verse", kick |-> {0, 11}, snare |-> {8}, hihat |-> All16,
       clap |-> {}, tom |-> {}, perc |-> {}, swing |-> 0],
      [id |-> "simple_kick_snare", kick |-> {0, 8}, snare |-> {4, 12}, hihat |-> {},
       clap |-> {}, tom |-> {}, perc |-> {}, swing |-> 50],
      [id |-> "simple_kick_clap", kick |-> {0, 4, 8, 12}, snare |-> {}, hihat |-> {},
       clap |-> {4, 12}, tom |-> {}, perc |-> {}, swing |-> 0],
      [id |-> "simple_kick_hihat", kick |-> {0, 8}, snare |-> {}, hihat |-> Evens16,
       clap |-> {}, tom |-> {}, perc |-> {}, swing |-> 50]
    >>

\* grid_step of match_pattern for one hit
GridStep(hit_time, bpm, downbeat_offset, time_signature) ==
    LET beat_duration == BeatDuration(bpm)
        bar_duration == beat_duration * time_signature
        grid_duration == beat_duration \div 4
        rel_time == IF hit_time - downbeat_offset < 0 THEN 0 ELSE hit_time - downbeat_offset
        bar_position == rel_time % bar_duration
    IN RoundHalfEven(bar_position, grid_duration) % 16

\* detected_grids of match_pattern
DetectedGrids(hs, bpm, downbeat_offset, time_signature) ==
    [d \in Range(DrumOrder) |->
        {GridStep(hs[i].time, bpm, downbeat_offset, time_signature) :
            i \in {j \in 1..Len(hs) : hs[j].type = d}}]

RECURSIVE PatternHits(_, _, _, _)
\* one bar of hits at the steps of pattern p, drum by drum
PatternHits(p, k, bpm, downbeat_offset) ==
    IF k > Len(DrumOrder) THEN <<>>
    ELSE LET steps == SortedSeqOfSet(p[DrumOrder[k]])
             grid_duration == BeatDuration(bpm) \div 4
         IN [i \in 1..Len(steps) |->
                [time |-> downbeat_offset + steps[i] * grid_duration,
                 type |-> DrumOrder[k]]]
            \o PatternHits(p, k + 1, bpm, downbeat_offset)

(***************************************************************************)
(* The published passes as a state machine over one request.               *)
(***************************************************************************)
Passes == {"standard", "ai", "steps"}

NoResult == [kind |-> "none"]

NoClassify == [kind |-> "none"]

NoQuantize == [kind |-> "none"]

NoSwing == [kind |-> "none"]

NoMatch == [kind |-> "none"]

NoAdaptive == [kind |-> "none"]

NoFilter == [kind |-> "none"]

NoGenre == [kind |-> "none"]

NoRequest == [pc |-> "idle"]

NoDoubling == [kind |-> "none"]

NoBackbeat == [kind |-> "none"]

\* the stem separator before any job: no entry in separation_jobs, no files
NoService ==
    [task |-> "none", model |-> "none", entry |-> FALSE, status |-> "none", stems |-> {},
     job_dir |-> FALSE, demucs_out |-> {}, files |-> {}, input_file |-> FALSE,
     copied |-> {}, raising |-> FALSE, deleted |-> FALSE]

InitExt ==
    /\ mp = NoMatch
    /\ ad = NoAdaptive
    /\ pf = NoFilter
    /\ gn = NoGenre
    /\ rq = NoRequest
    /\ sep = NoService
    /\ bb = NoBackbeat
    /\ dbl = NoDoubling

InitPipe ==
    /\ pc = "start"
    /\ pass = "none"
    /\ tracked = [bpm |-> 0, conf |-> 0, beats |-> <<>>, beat_count |-> 0]
    /\ beat = [bpm |-> 0, bpm_confidence |-> 0, beats |-> <<>>, downbeats |-> <<>>,
               time_signature |-> 4]
    /\ method = "none"
    /\ halfTime = <<>>
    /\ grid = [bpm |-> 0, beats |-> <<>>, downbeats |-> <<>>]
    /\ stem = [use_stem |-> FALSE, drums_path |-> FALSE]
    /\ hits = <<>>
    /\ est = [swing |-> 5000, genre |-> "none", genre_confidence |-> 0]
    /\ result = NoResult

Init ==
    /\ InitPipe
    /\ cls = NoClassify
    /\ qz = NoQuantize
    /\ sw = NoSwing
    /\ InitExt

GridOf(b) == [bpm |-> b.bpm, beats |-> b.beats, downbeats |-> b.downbeats]

\* detect_beats, madmom available and successful
DetectBeatsMadmom ==
    /\ pc = "start"
    /\ \E p \in Passes, bs \in TrackerBeats, conf \in TrackerConfs,
          dbOk \in BOOLEAN, ts \in {3, 4}, phase \in 0..1 :
          /\ Len(bs) >= 2
          /\ ~dbOk => (ts = 4 /\ phase = 0)
          /\ LET b == detect_beats_madmom(bs, conf, dbOk, ts, phase)
             IN /\ pass' = p
                /\ tracked' = [bpm |-> b.bpm, conf |-> b.bpm_confidence, beats |-> b.beats,
                               beat_count |-> Len(bs)]
                /\ beat' = b
                /\ grid' = GridOf(b)
    /\ method' = "madmom"
    /\ halfTime' = <<>>
    /\ pc' = "tracked"
    /\ UNCHANGED <<stem, hits, est, result, cls, qz, sw, extVars>>

\* detect_beats, madmom missing or failed: librosa, then the spectral correction
DetectBeatsLibrosa ==
    /\ pc = "start"
    /\ \E p \in Passes, bpm \in TrackerBpms, bs \in TrackerBeats, conf \in TrackerConfs,
          dense \in BOOLEAN :
          LET raw == detect_beats_librosa(bpm, bs, conf)
              rule == SpectralRule(raw, dense)
              b == correct_half_time_spectral(raw, dense)
          IN /\ pass' = p
             /\ tracked' = [bpm |-> raw.bpm, conf |-> raw.bpm_confidence, beats |-> raw.beats,
                            beat_count |-> Len(bs)]
             /\ beat' = b
             /\ grid' = GridOf(b)
             /\ halfTime' = IF rule \in {"A", "B"}
                            THEN <<[rule |-> rule, from |-> raw.bpm, to |-> b.bpm]>>
                            ELSE <<>>
    /\ method' = "librosa"
    /\ pc' = "tracked"
    /\ UNCHANGED <<stem, hits, est, result, cls, qz, sw, extVars>>

\* Step 1b of /analyze-rhythm-ai and /analyze-rhythm-steps
CorrectHalfTime ==
    /\ pc = "tracked"
    /\ pass \in {"ai", "steps"}
    /\ LET c == correct_half_time_beats(beat.bpm, beat.beats, beat.downbeats)
       IN /\ grid' = c
          /\ halfTime' = IF beat.bpm >= 90000 THEN halfTime
                         ELSE Append(halfTime,
                                [rule |-> "beats", from |-> beat.bpm, to |-> c.bpm])
    /\ pc' = "corrected"
    /\ UNCHANGED <<pass, tracked, beat, method, stem, hits, est, result, cls, qz, sw, extVars>>

\* Stage 2 of /analyze-rhythm: ok is the outcome of the stem service
SeparateStem ==
    /\ pc = "tracked"
    /\ pass = "standard"
    /\ \E use_stem \in BOOLEAN, ok \in BOOLEAN :
          stem' = [use_stem |-> use_stem, drums_path |-> use_stem /\ ok]
    /\ pc' = "corrected"
    /\ UNCHANGED <<pass, tracked, beat, method, halfTime, grid, hits, est, result,
                   cls, qz, sw, extVars>>

\* results.items() of detect_drums_with_sensitivity
StepsOrder == <<"kick", "snare", "clap", "hihat">>

RECURSIVE StepsHits(_, _)
StepsHits(H, k) ==
    IF k > Len(StepsOrder) THEN <<>>
    ELSE LET times == SortedSeqOfSet({h[2] : h \in {x \in H : x[1] = StepsOrder[k]}})
         IN [i \in 1..Len(times) |->
                [time |-> times[i], type |-> StepsOrder[k], confidence |-> 100]]
            \o StepsHits(H, k + 1)

\* drum detection on the probed grid, conversion to DrumHit, sort, swing and genre
DetectDrums ==
    /\ pc = "corrected"
    /\ \E H \in DetectionOutcomes(grid.beats, beat.time_signature) :
          IF pass = "steps"
          THEN /\ hits' = StepsHits(H, 1)
               /\ LET g == detect_genre(grid.bpm, hits', 5000)
                  IN est' = [swing |-> 5000, genre |-> g.genre,
                             genre_confidence |-> g.confidence]
          ELSE /\ hits' = SortByTime(HitsOfDrums(H, 1,
                              IF pass = "ai" THEN 85
                              ELSE IF stem.drums_path THEN 90 ELSE 70))
               /\ LET swing == detect_swing(HitTimes(hits'), beat.beats)
                      g == detect_genre(beat.bpm, hits', swing)
                  IN est' = [swing |-> swing, genre |-> g.genre,
                             genre_confidence |-> g.confidence]
    /\ pc' = "detected"
    /\ UNCHANGED <<pass, tracked, beat, method, halfTime, grid, stem, result, cls, qz, sw, extVars>>

\* variant of AnalysisSource that reports the drums stem whatever was analysed
AnalysisSourceAlwaysStem(drums_path) == "drums_stem"

\* analysis_source: the drums stem if separate_drums_stem returned a path
AnalysisSource(drums_path) == IF drums_path THEN "drums_stem" ELSE "full_mix"

\* Stage 7 of /analyze-rhythm and the response
FinishStandard ==
    /\ pc = "detected"
    /\ pass = "standard"
    /\ \E apply_pattern_filter \in BOOLEAN, pattern_tolerance_ms \in Tolerances :
          LET hits_before_filter == Len(hits)
              pattern_filter_applied == apply_pattern_filter /\ Len(beat.downbeats) > 0
              filtered == IF pattern_filter_applied
                          THEN filter_hits_by_pattern(hits, beat.bpm, beat.downbeats[1].time,
                                   beat.time_signature, est.genre, pattern_tolerance_ms)
                          ELSE hits
              analysis_source == AnalysisSource(stem.drums_path)
          IN /\ result' = [kind |-> "analysis",
                           bpm |-> beat.bpm,
                           bpm_confidence |-> beat.bpm_confidence,
                           beats |-> beat.beats,
                           downbeats |-> beat.downbeats,
                           time_signature |-> beat.time_signature,
                           hits |-> filtered,
                           swing |-> est.swing,
                           analysis_method |-> <<method, analysis_source>>
                               \o (IF pattern_filter_applied THEN <<"pattern_filter">>
                                   ELSE <<>>),
                           analysis_source |-> analysis_source,
                           detected_genre |-> est.genre,
                           genre_confidence |-> est.genre_confidence,
                           pattern_filter_applied |-> pattern_filter_applied,
                           hits_before_filter |-> hits_before_filter,
                           hits_after_filter |-> Len(filtered)]
    /\ pc' = "done"
    /\ UNCHANGED <<pass, tracked, beat, method, halfTime, grid, stem, hits, est,
                   cls, qz, sw, extVars>>

\* the response of /analyze-rhythm-ai
FinishAi ==
    /\ pc = "detected"
    /\ pass = "ai"
    /\ result' = [kind |-> "analysis",
                  bpm |-> grid.bpm,
                  bpm_confidence |-> beat.bpm_confidence,
                  beats |-> grid.beats,
                  downbeats |-> grid.downbeats,
                  time_signature |-> beat.time_signature,
                  hits |-> hits,
                  swing |-> est.swing,
                  analysis_method |-> <<"gemini-ai">>,
                  analysis_source |-> "gemini_ai",
                  detected_genre |-> est.genre,
                  genre_confidence |-> est.genre_confidence,
                  pattern_filter_applied |-> FALSE,
                  hits_before_filter |-> Len(hits),
                  hits_after_filter |-> Len(hits)]
    /\ pc' = "done"
    /\ UNCHANGED <<pass, tracked, beat, method, halfTime, grid, stem, hits, est,
                   cls, qz, sw, extVars>>

\* the response of /analyze-rhythm-steps
FinishSteps ==
    /\ pc = "detected"
    /\ pass = "steps"
    /\ result' = [kind |-> "steps",
                  bpm |-> grid.bpm,
                  bpm_confidence |-> beat.bpm_confidence,
                  beats |-> grid.beats,
                  downbeats |-> grid.downbeats,
                  time_signature |-> beat.time_signature,
                  steps |-> [k \in 1..Len(StepsOrder) |->
                               SelectSeq(hits, LAMBDA h : h.type = StepsOrder[k])],
                  detected_genre |-> est.genre,
                  genre_confidence |-> est.genre_confidence]
    /\ pc' = "done"
    /\ UNCHANGED <<pass, tracked, beat, method, halfTime, grid, stem, hits, est,
                   cls, qz, sw, extVars>>

Next ==
    \/ DetectBeatsMadmom
    \/ DetectBeatsLibrosa
    \/ CorrectHalfTime
    \/ SeparateStem
    \/ DetectDrums
    \/ FinishStandard
    \/ FinishAi
    \/ FinishSteps

Spec == Init /\ [][Next]_vars

(***************************************************************************)
(* Properties of the published passes.                                     *)
(***************************************************************************)
NoDuplicates(s) == \A i, j \in 1..Len(s) : i # j => s[i] # s[j]

\* C1: in every /analyze-rhythm result hits_after_filter <= hits_before_filter,
\* hits_after_filter counts the hits returned, and the returned hits are detected
\* hits, none added and none duplicated.
C1_FilterOnlyRemoves ==
    (result.kind = "analysis" /\ pass = "standard") =>
        /\ result.hits_before_filter = Len(hits)
        /\ result.hits_after_filter <= result.hits_before_filter
        /\ result.hits_after_filter = Len(result.hits)
        /\ Range(result.hits) \subseteq Range(hits)
        /\ NoDuplicates(result.hits)

\* a result whose pattern filter removed some hits and kept others
C1_Witness ==
    /\ result.kind = "analysis"
    /\ pass = "standard"
    /\ result.pattern_filter_applied
    /\ 0 < result.hits_after_filter
    /\ result.hits_after_filter < result.hits_before_filter

\* lexicographic rank of the drum types
TypeRank(ty) ==
    CASE ty = "clap" -> 1 [] ty = "hihat" -> 2 [] ty = "kick" -> 3
      [] ty = "perc" -> 4 [] ty = "snare" -> 5 [] OTHER -> 6

\* C2: the hits of every analysis result are ordered by time, and hits with the
\* same timestamp are in lexicographic order of their drum type.
C2_SortedTiesByType ==
    result.kind = "analysis" =>
        \A i, j \in 1..Len(result.hits) :
            i < j => \/ result.hits[i].time < result.hits[j].time
                     \/ /\ result.hits[i].time = result.hits[j].time
                        /\ TypeRank(result.hits[i].type) <= TypeRank(result.hits[j].type)

\* C3: every half-time doubling (spectral rule A or B, or correct_half_time_beats)
\* yields a bpm in [50, 220].
C3_DoubledBpmInRange ==
    \A i \in 1..Len(halfTime) : 50000 <= halfTime[i].to /\ halfTime[i].to <= 220000

RuleAFired == \E i \in 1..Len(halfTime) : halfTime[i].rule = "A"

\* C4: on the librosa path rule A of correct_half_time_spectral fires, doubling
\* the bpm, exactly when bpm < 95 and confidence < 0.5; so it fires at
\* (94.999, 0.499) and not at (95.0, 0.5).
C4_RuleABoundary ==
    (pc # "start" /\ method = "librosa") =>
        /\ RuleAFired <=> (tracked.bpm < 95000 /\ tracked.conf < 5000)
        /\ RuleAFired => beat.bpm = 2 * tracked.bpm
        /\ (tracked.bpm = 94999 /\ tracked.conf = 4990) => RuleAFired
        /\ (tracked.bpm = 95000 /\ tracked.conf = 5000) => ~RuleAFired

\* rule A has fired at the boundary input (94.999, 0.499)
C4_Witness ==
    /\ method = "librosa"
    /\ tracked.bpm = 94999
    /\ tracked.conf = 4990
    /\ RuleAFired
    /\ beat.bpm = 189998

\* C5: in every published pass half-time correction is applied once: the reported
\* bpm is the tracker's bpm or twice it, and the reported beats hold at most one
\* midpoint between two tracked beats.
C5_CorrectedOnce ==
    result.kind \in {"analysis", "steps"} =>
        /\ result.bpm \in {tracked.bpm, 2 * tracked.bpm}
        /\ Len(result.beats) <= Max(Len(tracked.beats), 2 * Len(tracked.beats) - 1)

\* C19: when stem separation is requested but fails, analyze_rhythm still completes
\* on the full mix and records it: analysis_source is full_mix and analysis_method
\* names full_mix, never drums_stem.
C19_DegradedPathRecorded ==
    (result.kind = "analysis" /\ pass = "standard" /\ stem.use_stem /\ ~stem.drums_path) =>
        /\ result.analysis_source = "full_mix"
        /\ result.analysis_method[1] = method
        /\ result.analysis_method[2] = "full_mix"
        /\ "drums_stem" \notin Range(result.analysis_method)

\* a standard pass that asked for the stem, did not get it, and completed
C19_Witness ==
    /\ pc = "done"
    /\ pass = "standard"
    /\ stem.use_stem /\ ~stem.drums_path
    /\ result.kind = "analysis"
    /\ Len(result.hits) > 0

\* C20: when the fallback beat tracker detects fewer than two beats, the pipeline
\* returns a synthesized beat grid at 120 BPM with bpm_confidence = 0.2.
C20_NoTempoFallback ==
    (pc # "start" /\ method = "librosa" /\ tracked.beat_count < 2) =>
        /\ beat.bpm = 120000
        /\ beat.bpm_confidence = 2000
        /\ beat.beats = SyntheticBeats(120000)

(***************************************************************************)
(* classify_hits as a state machine: one call, one onset per step.         *)
(***************************************************************************)
\* onset times of the call (ms), increasing as librosa reports them
OnsetTimes == {0, 250, 1000}

\* the beats argument: None, a quarter-note grid, a grid twice as dense
BeatGrids == {<<>>, <<0, 500, 1000>>, <<0, 250, 500, 750, 1000>>}

InitClassify ==
    /\ InitPipe
    /\ cls = NoClassify
    /\ qz = NoQuantize
    /\ sw = NoSwing
    /\ InitExt

\* entry of classify_hits
ClassifyStart ==
    /\ cls.kind = "none"
    /\ \E is_drums_stem \in BOOLEAN, beats \in BeatGrids, time_signature \in {3, 4} :
          cls' = [kind |-> "run", is_drums_stem |-> is_drums_stem, beats |-> beats,
                  time_signature |-> time_signature, hits |-> <<>>]
    /\ UNCHANGED <<pipeVars, qz, sw, extVars>>

\* one iteration of `for onset_time in onset_times`
ClassifyHit ==
    /\ cls.kind = "run"
    /\ Len(cls.hits) < MaxOnsets
    /\ \E f \in FeatureVectors, onset_time \in OnsetTimes :
          /\ cls.hits # <<>> => onset_time > cls.hits[Len(cls.hits)].time
          /\ cls' = [cls EXCEPT !.hits =
                        Append(@, ClassifyOnset(f, onset_time, cls.beats,
                                                cls.time_signature, cls.is_drums_stem))]
    /\ UNCHANGED <<pipeVars, qz, sw, extVars>>

NextClassify ==
    \/ ClassifyStart
    \/ ClassifyHit

SpecClassify == InitClassify /\ [][NextClassify]_vars

\* the (type, confidence) the rule-based variant of the call returns for a hit
RulesResult(h) ==
    IF cls.is_drums_stem THEN classify_hit_rules_drums_stem(h.features, h.beat_pos)
    ELSE classify_hit_rules(h.features, h.beat_pos)

\* C6 as stated: two onsets of a call with identical feature vectors receive the
\* identical (type, confidence), from the rules and from classify_hits.
C6_FeaturesAloneDetermine ==
    cls.kind = "run" =>
        \A i, j \in 1..Len(cls.hits) :
            cls.hits[i].features = cls.hits[j].features =>
                /\ cls.hits[i].type = cls.hits[j].type
                /\ cls.hits[i].confidence = cls.hits[j].confidence
                /\ RulesResult(cls.hits[i]) = RulesResult(cls.hits[j])

\* C6 (amended): two onsets of a call with identical feature vectors and the
\* identical beat phase (position within the beat and beat number in the bar)
\* receive the identical (type, confidence): nothing else enters the result.
C6_FeaturesAndPhaseDetermine ==
    cls.kind = "run" =>
        \A i, j \in 1..Len(cls.hits) :
            (/\ cls.hits[i].features = cls.hits[j].features
             /\ cls.hits[i].beat_pos = cls.hits[j].beat_pos
             /\ cls.hits[i].beat_num = cls.hits[j].beat_num) =>
                /\ cls.hits[i].type = cls.hits[j].type
                /\ cls.hits[i].confidence = cls.hits[j].confidence
                /\ RulesResult(cls.hits[i]) = RulesResult(cls.hits[j])

\* two onsets at different times, same features, same known phase, both moved by
\* the on-beat boost
C6_Witness ==
    /\ cls.kind = "run"
    /\ \E i, j \in 1..Len(cls.hits) :
          /\ i < j
          /\ cls.hits[i].features = cls.hits[j].features
          /\ cls.hits[i].beat_pos = 0
          /\ cls.hits[j].beat_pos = 0
          /\ cls.hits[i].beat_num = cls.hits[j].beat_num
          /\ cls.hits[i].confidence # RulesResult(cls.hits[i]).confidence
          /\ cls.hits[j].confidence = cls.hits[i].confidence

\* C7: both rule-based variants return a confidence within [0, 1] for every
\* feature vector and beat position.
C7_ConfidenceInUnitInterval ==
    cls.kind = "run" =>
        \A i \in 1..Len(cls.hits) :
            /\ 0 <= RulesResult(cls.hits[i]).confidence
            /\ RulesResult(cls.hits[i]).confidence <= 10000

(***************************************************************************)
(* The quantizer endpoints and the pattern round trip as a state machine.  *)
(***************************************************************************)
QuantBpms == {80, 120}

DownbeatOffsets == {0, 100000}

Swings == {0, 50, 58, 100}

Strengths == {50, 100}

\* hits a request may carry: times in microseconds, some off the grid, one
\* before the later downbeat anchor
RequestHits ==
    { [time |-> t, type |-> ty] : t \in {0, 145000, 250000, 400000},
                                  ty \in {"kick", "hihat"} }

RECURSIVE SeqsUpTo(_, _)
\* the lists of at most n elements of S
SeqsUpTo(S, n) ==
    IF n = 0 THEN {<<>>}
    ELSE LET shorter == SeqsUpTo(S, n - 1)
         IN shorter \cup {Append(q, x) : q \in {r \in shorter : Len(r) = n - 1}, x \in S}

InitQuantize ==
    /\ InitPipe
    /\ cls = NoClassify
    /\ qz = NoQuantize
    /\ sw = NoSwing
    /\ InitExt

\* POST /quantize-grid (subdivision is the default 4)
QuantizeGrid ==
    /\ qz.kind = "none"
    /\ \E hs \in SeqsUpTo(RequestHits, MaxQuantHits), bpm \in QuantBpms,
          downbeat_offset \in DownbeatOffsets, swing \in Swings,
          quantize_strength \in Strengths :
          qz' = [kind |-> "grid", drum_type |-> "all", bpm |-> bpm,
                 downbeat_offset |-> downbeat_offset, swing |-> swing,
                 quantize_strength |-> quantize_strength, subdivision |-> 4,
                 request |-> hs,
                 rounds |-> <<quantize_to_grid(hs, bpm, downbeat_offset, swing,
                                               quantize_strength, 4)>>]
    /\ UNCHANGED <<pipeVars, cls, sw, extVars>>

\* POST /quantize-instrument
QuantizeInstrument ==
    /\ qz.kind = "none"
    /\ \E hs \in SeqsUpTo(RequestHits, MaxQuantHits), bpm \in QuantBpms,
          downbeat_offset \in DownbeatOffsets, swing \in Swings,
          quantize_strength \in Strengths, subdivision \in {2, 4},
          drum_type \in {"kick", "hihat"} :
          qz' = [kind |-> "instrument", drum_type |-> drum_type, bpm |-> bpm,
                 downbeat_offset |-> downbeat_offset, swing |-> swing,
                 quantize_strength |-> quantize_strength, subdivision |-> subdivision,
                 request |-> hs,
                 rounds |-> <<quantize_instrument(hs, drum_type, bpm, downbeat_offset,
                                  swing, quantize_strength, subdivision)>>]
    /\ UNCHANGED <<pipeVars, cls, sw, extVars>>

\* the client posts the hits it received again, with the same parameters
QuantizeAgain ==
    /\ qz.kind \in {"grid", "instrument"}
    /\ Len(qz.rounds) < MaxRounds
    /\ LET last == qz.rounds[Len(qz.rounds)].hits
           again == IF qz.kind = "grid"
                    THEN quantize_to_grid(last, qz.bpm, qz.downbeat_offset, qz.swing,
                                          qz.quantize_strength, 4)
                    ELSE quantize_instrument(last, qz.drum_type, qz.bpm,
                             qz.downbeat_offset, qz.swing, qz.quantize_strength,
                             qz.subdivision)
       IN qz' = [qz EXCEPT !.rounds = Append(@, again)]
    /\ UNCHANGED <<pipeVars, cls, sw, extVars>>

\* one bar built from a library pattern, quantized at the pattern's swing with
\* strength 1 (/quantize-grid) and mapped back to steps (/match-pattern)
RoundTripPattern ==
    /\ qz.kind = "none"
    /\ \E k \in 1..Len(KNOWN_PATTERNS), bpm \in QuantBpms,
          downbeat_offset \in DownbeatOffsets :
          LET pattern == KNOWN_PATTERNS[k]
              hs == PatternHits(pattern, 1, bpm, downbeat_offset)
              q == quantize_to_grid(hs, bpm, downbeat_offset, pattern.swing, 100, 4)
          IN qz' = [kind |-> "pattern", pattern |-> pattern, bpm |-> bpm,
                    downbeat_offset |-> downbeat_offset, request |-> hs,
                    rounds |-> <<q>>,
                    detected_grids |-> DetectedGrids(q.hits, bpm, downbeat_offset, 4)]
    /\ UNCHANGED <<pipeVars, cls, sw, extVars>>

NextQuantize ==
    \/ QuantizeGrid
    \/ QuantizeInstrument
    \/ QuantizeAgain
    \/ RoundTripPattern

SpecQuantize == InitQuantize /\ [][NextQuantize]_vars

\* C8: with strength = 1, quantizing the quantized hits again with the same
\* parameters returns exactly the hit times of the first quantization.
C8_QuantizeIdempotent ==
    (qz.kind \in {"grid", "instrument"} /\ qz.quantize_strength = 100) =>
        \A r \in 2..Len(qz.rounds) :
            /\ Len(qz.rounds[r].hits) = Len(qz.rounds[1].hits)
            /\ \A i \in 1..Len(qz.rounds[1].hits) :
                  qz.rounds[r].hits[i].time = qz.rounds[1].hits[i].time

\* C9: a bar built from a library pattern, quantized with strength = 1 at the
\* pattern's swing and mapped back to 16-step sets, gives the pattern's step
\* sets drum by drum.
C9_PatternRoundTrip ==
    qz.kind = "pattern" =>
        \A d \in Range(DrumOrder) : qz.detected_grids[d] = qz.pattern[d]

\* the hits of the request whose type is the requested drum type
InstrumentHits == SelectSeq(qz.request, LAMBDA h : h.type = qz.drum_type)

\* C16: /quantize-instrument operates only on the hits whose type equals drum_type:
\* its output holds exactly one quantized hit per input hit of that type, in input
\* order and with that type, no hit of another type is moved or emitted, and with
\* no hit of that type both lists are empty.
C16_InstrumentOnly ==
    qz.kind = "instrument" =>
        LET out == qz.rounds[1]
        IN /\ Len(out.hits) = Len(InstrumentHits)
           /\ Len(out.grid_positions) = Len(InstrumentHits)
           /\ \A i \in 1..Len(out.hits) :
                 /\ out.hits[i].type = qz.drum_type
                 /\ out.grid_positions[i].original_time = InstrumentHits[i].time
                 /\ out.hits[i] = QuantizeHit(InstrumentHits[i], qz.bpm, qz.downbeat_offset,
                                      qz.swing, qz.quantize_strength, qz.subdivision).hit

\* a request that mixes a hit of the requested type with a hit of another type
C16_Witness ==
    /\ qz.kind = "instrument"
    /\ InstrumentHits # <<>>
    /\ Len(InstrumentHits) < Len(qz.request)
    /\ Len(qz.rounds[1].hits) = Len(InstrumentHits)

\* (bar, beat, sub-beat) of a grid step, 4 beats per bar
StepAddress(grid_index, subdivision) ==
    [bar |-> grid_index \div (4 * subdivision) + 1,
     beat |-> (grid_index % (4 * subdivision)) \div subdivision + 1,
     subbeat |-> (grid_index % subdivision) + 1]

\* C24: for every hit, the grid address (bar, beat, sub-beat) emitted by
\* quantize_to_grid is the address of the grid step the hit is snapped to, also
\* for a hit slightly before that step, with bar >= 1, beat in 1..4 and
\* sub-beat in 1..subdivision.
C24_AddressOfSnappedStep ==
    qz.kind = "grid" =>
        \A i \in 1..Len(qz.request) :
           LET position == qz.rounds[1].grid_positions[i]
               grid_index == RoundHalfEven(qz.request[i].time - qz.downbeat_offset,
                                           BeatDuration(qz.bpm) \div qz.subdivision)
               address == StepAddress(grid_index, qz.subdivision)
           IN /\ position.bar = address.bar
              /\ position.beat = address.beat
              /\ position.subbeat = address.subbeat
              /\ position.bar >= 1
              /\ position.beat \in 1..4
              /\ position.subbeat \in 1..qz.subdivision

(***************************************************************************)
(* The swing estimator on generated hit sets.  A track is generated beat   *)
(* by beat: a hit on every beat, and in the intervals where the offbeat    *)
(* instrument plays a hit at fraction s/100 of that interval.  The tempo   *)
(* may slow down once (beat intervals of 500 ms, then of 550 ms); the      *)
(* offbeat instrument plays throughout or only after the tempo change.     *)
(***************************************************************************)
SwingValues == {50, 58, 66}

BeatIntervals == {500, 550}

InitSwing ==
    /\ InitPipe
    /\ cls = NoClassify
    /\ qz = NoQuantize
    /\ sw = NoSwing
    /\ InitExt

\* the first beat of the generated track, with its on-beat hit
SwingStart ==
    /\ sw.kind = "none"
    /\ \E s \in SwingValues, throughout \in BOOLEAN :
          sw' = [kind |-> "track", s |-> s, throughout |-> throughout,
                 beats |-> <<0>>, hit_times |-> <<0>>, interval |-> SetMin(BeatIntervals),
                 offbeats |-> 0]
    /\ UNCHANGED <<pipeVars, cls, qz, extVars>>

\* one more beat interval: its offbeat hit (if the instrument plays) and the
\* on-beat hit of the beat that ends it
SwingAddBeat ==
    /\ sw.kind = "track"
    /\ Len(sw.beats) < MaxSwingBeats
    /\ \E interval \in BeatIntervals :
          /\ interval >= sw.interval
          /\ LET beat_start == sw.beats[Len(sw.beats)]
                 plays == sw.throughout \/ interval > SetMin(BeatIntervals)
                 offbeat == beat_start + (sw.s * interval) \div 100
             IN sw' = [sw EXCEPT
                         !.beats = Append(@, beat_start + interval),
                         !.hit_times = (IF plays THEN Append(@, offbeat) ELSE @)
                                       \o <<beat_start + interval>>,
                         !.interval = interval,
                         !.offbeats = @ + B2I(plays)]
    /\ UNCHANGED <<pipeVars, cls, qz, extVars>>

\* detect_swing on the generated track
SwingEstimate ==
    /\ sw.kind = "track"
    /\ sw' = [sw EXCEPT !.kind = "estimated"] @@
             [estimate |-> detect_swing(sw.hit_times, sw.beats)]
    /\ UNCHANGED <<pipeVars, cls, qz, extVars>>

NextSwing ==
    \/ SwingStart
    \/ SwingAddBeat
    \/ SwingEstimate

SpecSwing == InitSwing /\ [][NextSwing]_vars

\* C10: a hit set with on-beat hits and at least 8 offbeat hits, each at fraction
\* s/100 of its beat interval, s in [50, 66], is estimated within s +/- 3.
C10_SwingInverse ==
    (sw.kind = "estimated" /\ sw.offbeats >= 8) =>
        /\ sw.estimate >= 100 * sw.s - 300
        /\ sw.estimate <= 100 * sw.s + 300

(***************************************************************************)
(* /match-pattern.  Scores are in 1/1000000, reported scores in tenths of  *)
(* a percent; times are integer microseconds as for the quantizer.         *)
(***************************************************************************)
\* weight of a drum type, times ten
DrumWeight(drum_type) ==
    CASE drum_type = "kick" -> 30
      [] drum_type = "snare" -> 25
      [] drum_type = "hihat" -> 10
      [] drum_type = "clap" -> 25
      [] drum_type = "tom" -> 15
      [] OTHER -> 10

\* keys of detected_grids with at least one step, in dictionary order
DetectedTypes(detected_grids) ==
    SelectSeq(DrumOrder, LAMBDA d : detected_grids[d] # {})

\* the drums a library pattern names, in the order of the comprehension
PatternDrums(pattern) ==
    SelectSeq(DrumOrder, LAMBDA d : pattern[d] # {})

\* f1_score of one common drum type, in 1/100000
WeightedF1(expected, detected) ==
    LET true_positives == Cardinality(expected \cap detected)
    IN (2 * true_positives * 100000) \div (Cardinality(expected) + Cardinality(detected))

RECURSIVE SumOver(_, _)
SumOver(f, S) ==
    IF S = {} THEN 0
    ELSE LET x == CHOOSE y \in S : TRUE
         IN f[x] + SumOver(f, S \ {x})

\* the entry of results for one pattern with at least one common drum type
PatternResult(pattern, detected_grids) ==
    LET detected_types == Range(DetectedTypes(detected_grids))
        pattern_drums == PatternDrums(pattern)
        common_types == detected_types \cap Range(pattern_drums)
        scores == [d \in common_types |->
                      WeightedF1(pattern[d], detected_grids[d]) * DrumWeight(d)]
        overall_score == SumOver(scores, common_types) \div Cardinality(common_types)
        coverage_bonus == (Cardinality(common_types) * 200000)
                              \div Max(Cardinality(detected_types), 1)
    IN [pattern_id |-> pattern.id,
        score |-> RoundHalfEven(Min(1000000, overall_score + coverage_bonus), 1000),
        missing_drums |-> SelectSeq(pattern_drums, LAMBDA d : d \notin detected_types),
        suggested_swing |-> pattern.swing]

RECURSIVE MatchResults(_, _)
\* results of match_pattern, in the order of the library
MatchResults(k, detected_grids) ==
    IF k > Len(KNOWN_PATTERNS) THEN <<>>
    ELSE LET pattern == KNOWN_PATTERNS[k]
             common_types == Range(DetectedTypes(detected_grids))
                                 \cap Range(PatternDrums(pattern))
         IN (IF common_types = {} THEN <<>>
             ELSE <<PatternResult(pattern, detected_grids)>>)
            \o MatchResults(k + 1, detected_grids)

\* variant of SortByScore that leaves the results in library order
SortByScoreUnsorted(results) == results

RECURSIVE SortByScore(_)
\* results.sort(key=score, reverse=True): stable, so equal scores keep library order
SortByScore(results) ==
    IF results = <<>> THEN <<>>
    ELSE LET best == CHOOSE i \in 1..Len(results) :
                        /\ \A j \in 1..Len(results) : results[j].score <= results[i].score
                        /\ \A j \in 1..(i - 1) : results[j].score < results[i].score
         IN <<results[best]>> \o
            SortByScore([i \in 1..(Len(results) - 1) |->
                            IF i < best THEN results[i] ELSE results[i + 1]])

\* suggestions, by kind
Suggestions(top_matches) ==
    IF top_matches = <<>> THEN <<>>
    ELSE LET best == top_matches[1]
         IN (IF best.score < 500 THEN <<"low_confidence">> ELSE <<>>)
            \o (IF best.missing_drums # <<>> THEN <<"missing_drums">> ELSE <<>>)
            \o (IF Abs(best.suggested_swing - 50) > 5 THEN <<"swing">> ELSE <<>>)

\* the response of match_pattern; a float division or modulo by zero raises
match_pattern(request) ==
    IF request.bpm = 0 THEN [kind |-> "error", error |-> "ZeroDivisionError"]
    ELSE IF request.time_signature = 0 /\ request.hits # <<>>
    THEN [kind |-> "error", error |-> "ZeroDivisionError"]
    ELSE LET known == SelectSeq(request.hits, LAMBDA h : h.type \in Range(DrumOrder))
             detected_grids == DetectedGrids(known, request.bpm, request.downbeat_offset,
                                             request.time_signature)
             results == SortByScore(MatchResults(1, detected_grids))
             top_matches == SubSeq(results, 1, Min(5, Len(results)))
         IN [kind |-> "response",
             matches |-> top_matches,
             best_match |-> IF top_matches # <<>> THEN top_matches[1] ELSE NoMatch,
             detected_pattern |-> detected_grids,
             detected_types |-> DetectedTypes(detected_grids),
             suggestions |-> Suggestions(top_matches)]

\* request parameters; the request model validates neither bpm nor time_signature
MatchBpms == {0, 120}

MatchSignatures == {0, 3, 4}

MatchHits ==
    {[time |-> t, type |-> ty] :
        t \in {0, 125000, 500000, 1625000},
        ty \in {"kick", "clap", "hihat", "tom", "cowbell"}}

\* one bar of a four-on-the-floor groove on the 16-step grid
FourOnFloorBar(bpm, downbeat_offset) ==
    PatternHits([kick |-> {0, 4, 8, 12}, snare |-> {}, hihat |-> Evens16,
                 clap |-> {4, 12}, tom |-> {}, perc |-> {}], 1, bpm, downbeat_offset)

InitMatch ==
    /\ InitPipe
    /\ cls = NoClassify
    /\ qz = NoQuantize
    /\ sw = NoSwing
    /\ InitExt

\* POST /match-pattern with a short list of hits; the handler keeps no state
\* between requests, so a behaviour serves one request
MatchPattern ==
    /\ mp.kind = "none"
    /\ \E hs \in SeqsUpTo(MatchHits, MaxMatchHits), bpm \in MatchBpms,
          downbeat_offset \in DownbeatOffsets, time_signature \in MatchSignatures :
          LET request == [hits |-> hs, bpm |-> bpm, downbeat_offset |-> downbeat_offset,
                          time_signature |-> time_signature]
          IN mp' = [kind |-> "served", bar |-> "none", request |-> request,
                    response |-> match_pattern(request)]
    /\ UNCHANGED <<pipeVars, cls, qz, sw, ad, pf, gn, rq, sep, bb, dbl>>

\* POST /match-pattern with one bar of a groove: four on the floor, or a library pattern
MatchBar ==
    /\ mp.kind = "none"
    /\ \E bpm \in MatchBpms \ {0}, downbeat_offset \in DownbeatOffsets,
          k \in 0..Len(KNOWN_PATTERNS) :
          LET request == [hits |-> IF k = 0 THEN FourOnFloorBar(bpm, downbeat_offset)
                                   ELSE PatternHits(KNOWN_PATTERNS[k], 1, bpm, downbeat_offset),
                          bpm |-> bpm, downbeat_offset |-> downbeat_offset,
                          time_signature |-> 4]
          IN mp' = [kind |-> "served",
                    bar |-> IF k = 0 THEN "four_on_floor" ELSE KNOWN_PATTERNS[k].id,
                    request |-> request,
                    response |-> match_pattern(request)]
    /\ UNCHANGED <<pipeVars, cls, qz, sw, ad, pf, gn, rq, sep, bb, dbl>>

NextMatch ==
    \/ MatchPattern
    \/ MatchBar

SpecMatch == InitMatch /\ [][NextMatch]_vars

\* the drum type of a hit occurs in some library pattern
InLibrary(drum_type) ==
    /\ drum_type \in Range(DrumOrder)
    /\ \E k \in 1..Len(KNOWN_PATTERNS) : KNOWN_PATTERNS[k][drum_type] # {}

\* C11: match_pattern never errors, and returns an empty matches list with no
\* best_match whenever no detected drum type occurs in any library pattern
\* (an empty hit list included).
C11_NoOverlapGivesEmpty ==
    (/\ mp.kind = "served"
     /\ \A i \in 1..Len(mp.request.hits) : ~InLibrary(mp.request.hits[i].type))
        => /\ mp.response.kind = "response"
           /\ mp.response.matches = <<>>
           /\ mp.response.best_match = NoMatch

\* C23: match_pattern returns at most 5 matches in non-increasing score order, no
\* library pattern left out of the list scores strictly higher than one in it,
\* every score lies in [0, 100] (0..1000 tenths), and best_match is the first
\* element of matches.
C23_TopFiveByScore ==
    (mp.kind = "served" /\ mp.response.kind = "response") =>
        LET matches == mp.response.matches
            results == MatchResults(1, mp.response.detected_pattern)
            listed == {matches[i].pattern_id : i \in 1..Len(matches)}
        IN /\ Len(matches) <= 5
           /\ \A i \in 1..Len(matches), j \in 1..Len(matches) :
                  i < j => matches[i].score >= matches[j].score
           /\ \A k \in 1..Len(results), i \in 1..Len(matches) :
                  results[k].pattern_id \notin listed => results[k].score <= matches[i].score
           /\ \A i \in 1..Len(matches) :
                  /\ matches[i].score \in 0..1000
                  /\ \E k \in 1..Len(results) : results[k] = matches[i]
           /\ mp.response.best_match = IF matches # <<>> THEN matches[1] ELSE NoMatch

\* five matches of different scores were returned and a pattern was left out
C23_Witness ==
    /\ mp.kind = "served"
    /\ mp.response.kind = "response"
    /\ Len(mp.response.matches) = 5
    /\ mp.response.matches[1].score > mp.response.matches[5].score
    /\ Len(MatchResults(1, mp.response.detected_pattern)) > 5
    /\ mp.response.best_match = mp.response.matches[1]

\* C25: match_pattern assigns every hit the step
\* round((time - downbeat_offset) / (60/bpm/4)) mod 16, for every hit time (hits
\* before the downbeat anchor included) and every time_signature in {3, 4}.
C25_StepOfEveryHit ==
    (/\ mp.kind = "served"
     /\ mp.request.bpm # 0
     /\ mp.request.time_signature \in {3, 4}) =>
        /\ mp.response.kind = "response"
        /\ \A d \in Range(DrumOrder) :
              mp.response.detected_pattern[d] =
                 {RoundHalfEven(mp.request.hits[i].time - mp.request.downbeat_offset,
                                BeatDuration(mp.request.bpm) \div 4) % 16 :
                     i \in {j \in 1..Len(mp.request.hits) : mp.request.hits[j].type = d}}

\* C15: for a four-on-the-floor bar (kicks on every beat, claps on 2 and 4, hi-hats
\* on every 8th note) the best match of match_pattern is edm_four_on_floor.
C15_FourOnFloorBestMatch ==
    (mp.kind = "served" /\ mp.bar = "four_on_floor") =>
        /\ mp.response.kind = "response"
        /\ mp.response.best_match # NoMatch
        /\ mp.response.best_match.pattern_id = "edm_four_on_floor"

(***************************************************************************)
(* /detect-adaptive.  Times are integer microseconds.  The audio is 2.5 s  *)
(* long; its percussive energy at a grid position of a drum band is one of *)
(* three levels: 0 below every threshold, 1 between the boosted and the    *)
(* base threshold, 2 above the base threshold.                             *)
(***************************************************************************)
AdaptiveDuration == 2500000

\* EXPECTED_POSITIONS local to detect_adaptive, in dictionary order
AdaptivePositions(drum_type) ==
    CASE drum_type = "kick" -> <<0, 8>>
      [] drum_type = "snare" -> <<4, 12>>
      [] drum_type = "hihat" -> <<0, 2, 4, 6, 8, 10, 12, 14>>
      [] drum_type = "clap" -> <<4, 12>>
      [] drum_type = "tom" -> <<>>
      [] OTHER -> <<0, 2, 4, 6, 8, 10, 12, 14>>

\* round(x, 3) and round(x, 4) of a time in seconds
RoundMillis(t) == RoundHalfEven(t, 1000) * 1000

RoundTenthMillis(t) == RoundHalfEven(t, 100) * 100

\* the (drum band, bar, grid position) places where the audio has energy
EnergyPlaces == {<<"kick", 1, 0>>, <<"hihat", 1, 0>>, <<"kick", 1, 8>>, <<"hihat", 2, 2>>}

\* the scan order of STEP 4: bars, then drum types, then grid positions
RECURSIVE ScanOrder(_, _, _)
ScanOrder(bars_to_scan, b, k) ==
    IF b > Len(bars_to_scan) THEN <<>>
    ELSE IF k > Len(DrumOrder) THEN ScanOrder(bars_to_scan, b + 1, 1)
    ELSE LET positions == AdaptivePositions(DrumOrder[k])
         IN [i \in 1..Len(positions) |-> <<DrumOrder[k], bars_to_scan[b], positions[i]>>]
            \o ScanOrder(bars_to_scan, b, k + 1)

\* energy level of the audio at a place of the scan
LevelAt(level, place) == IF place \in DOMAIN level THEN level[place] ELSE 0

\* STEP 4 of detect_adaptive: the hits appended to new_hits from position i of the
\* scan order on; existing_times holds times rounded to the millisecond
RECURSIVE AdaptiveScan(_, _, _, _, _, _, _)
AdaptiveScan(order, i, existing_times, level, quiet_bars, bar_duration, downbeat_offset) ==
    IF i > Len(order) THEN <<>>
    ELSE LET drum_type == order[i][1]
             bar_num == order[i][2]
             grid_pos == order[i][3]
             hit_time == downbeat_offset + (bar_num - 1) * bar_duration
                             + grid_pos * (bar_duration \div 16)
             is_quiet == bar_num \in quiet_bars
             emitted == /\ hit_time >= 0 /\ hit_time < AdaptiveDuration
                        /\ ~\E t \in existing_times : Abs(t - hit_time) < 30000
                        /\ LevelAt(level, order[i]) >= (IF is_quiet THEN 1 ELSE 2)
         IN IF emitted
            THEN <<[time |-> RoundTenthMillis(hit_time), type |-> drum_type, bar |-> bar_num,
                    grid_position |-> grid_pos, is_quiet_bar |-> is_quiet,
                    threshold_used |-> IF is_quiet THEN "base / sensitivity_boost"
                                       ELSE "base"]>>
                 \o AdaptiveScan(order, i + 1, existing_times \cup {RoundMillis(hit_time)},
                                 level, quiet_bars, bar_duration, downbeat_offset)
            ELSE AdaptiveScan(order, i + 1, existing_times, level, quiet_bars,
                              bar_duration, downbeat_offset)

\* total_bars = int(duration / bar_duration) + 1
TotalBars(bar_duration) == AdaptiveDuration \div bar_duration + 1

\* bars_to_scan of STEP 2: target is "all", "quiet", or a parsed list of bar numbers
BarsToScan(target_bars, quiet_bars, total_bars) ==
    IF target_bars = "quiet" THEN SortedSeqOfSet(quiet_bars)
    ELSE IF target_bars = "all" THEN [i \in 1..total_bars |-> i]
    ELSE target_bars

\* new_hits.sort(key=time): stable
RECURSIVE SortNewHits(_)
SortNewHits(hs) ==
    IF hs = <<>> THEN <<>>
    ELSE LET first == CHOOSE i \in 1..Len(hs) :
                         /\ \A j \in 1..Len(hs) : hs[i].time <= hs[j].time
                         /\ \A j \in 1..(i - 1) : hs[j].time > hs[i].time
         IN <<hs[first]>> \o
            SortNewHits([i \in 1..(Len(hs) - 1) |-> IF i < first THEN hs[i] ELSE hs[i + 1]])

\* variant of QuietBars that takes the median over all the bars, silent ones too
QuietBarsOfAllBars(bar_rms) ==
    LET median_x2 == IF bar_rms # <<>> THEN MedianX2(bar_rms) ELSE 20
    IN {b \in 1..Len(bar_rms) : bar_rms[b] * 20 < median_x2 * 6}

\* quiet_bars of STEP 1, the RMS values in 1/1000: the bars below 60% of the
\* median of the non-zero values (of 0.01 when there is none)
QuietBars(bar_rms) ==
    LET all_rms == SelectSeq(bar_rms, LAMBDA rms : rms > 0)
        median_x2 == IF all_rms # <<>> THEN MedianX2(all_rms) ELSE 20
    IN {b \in 1..Len(bar_rms) : bar_rms[b] * 20 < median_x2 * 6}

\* the response of detect_adaptive; any exception is caught and reported
detect_adaptive(bpm, downbeat_offset, time_signature, existing, target_bars, level, bar_rms) ==
    IF bpm = 0 \/ time_signature = 0 THEN [success |-> FALSE]
    ELSE LET existing_times == {RoundMillis(existing[i].time) : i \in 1..Len(existing)}
             bar_duration == BeatDuration(bpm) * time_signature
             total_bars == TotalBars(bar_duration)
             quiet_bars == QuietBars(bar_rms)
             bars_to_scan == BarsToScan(target_bars, quiet_bars, total_bars)
             \* a place without energy emits nothing and leaves existing_times alone
             order == SelectSeq(ScanOrder(bars_to_scan, 1, 1),
                                LAMBDA place : LevelAt(level, place) > 0)
             new_hits == SortNewHits(AdaptiveScan(order, 1, existing_times, level,
                             quiet_bars, bar_duration, downbeat_offset))
         IN [success |-> TRUE,
             total_bars |-> total_bars,
             bars_scanned |-> Len(bars_to_scan),
             quiet_bars |-> SortedSeqOfSet(quiet_bars),
             bar_energies |-> [b \in 1..Len(bar_rms) |->
                                  [bar |-> b, rms |-> bar_rms[b], is_quiet |-> b \in quiet_bars]],
             new_hits |-> new_hits,
             total_new_hits |-> Len(new_hits),
             hits_by_type |-> [d \in Range(DrumOrder) |-> CountType(new_hits, d)]]

\* request parameters
AdaptiveBpms == {0, 120}

TargetBars == {"all", "quiet", <<1>>, <<2, 1>>}

ExistingHits ==
    {[time |-> t, type |-> ty] : t \in {10000, 29600, 1031000}, ty \in {"kick", "hihat"}}

InitAdaptive ==
    /\ InitPipe
    /\ cls = NoClassify
    /\ qz = NoQuantize
    /\ sw = NoSwing
    /\ InitExt

\* percussive RMS of a bar in 1/1000: a silent bar, a soft one, a loud one
BarRms == {0, 4, 10}

\* the bars of the audio at a tempo
AdaptiveBars(bpm) == IF bpm = 0 THEN 0 ELSE TotalBars(BeatDuration(bpm) * 4)

\* POST /detect-adaptive; a silent bar has no energy in any band; the handler
\* keeps no state between requests, so a behaviour serves one request
DetectAdaptive ==
    /\ ad.kind = "none"
    /\ \E bpm \in AdaptiveBpms, downbeat_offset \in DownbeatOffsets,
          existing \in SeqsUpTo(ExistingHits, MaxExisting), target_bars \in TargetBars,
          level \in [EnergyPlaces -> 0..2] :
       \E bar_rms \in [1..AdaptiveBars(bpm) -> BarRms] :
          /\ \A place \in EnergyPlaces :
                (place[2] \in DOMAIN bar_rms /\ bar_rms[place[2]] = 0) => level[place] = 0
          /\ ad' = [kind |-> "served",
                    request |-> [bpm |-> bpm, downbeat_offset |-> downbeat_offset,
                                 time_signature |-> 4, existing_hits |-> existing,
                                 target_bars |-> target_bars],
                    response |-> detect_adaptive(bpm, downbeat_offset, 4, existing,
                                                 target_bars, level, bar_rms)]
    /\ UNCHANGED <<pipeVars, cls, qz, sw, mp, pf, gn, rq, sep, bb, dbl>>

NextAdaptive == DetectAdaptive

SpecAdaptive == InitAdaptive /\ [][NextAdaptive]_vars

\* C12: no hit of new_hits lies within 30 ms of an existing hit of the same drum
\* type, comparing the unrounded times of the existing hits.
C12_NoHitNearExisting ==
    (ad.kind = "served" /\ ad.response.success) =>
        \A i \in 1..Len(ad.response.new_hits), j \in 1..Len(ad.request.existing_hits) :
            ad.response.new_hits[i].type = ad.request.existing_hits[j].type
                => Abs(ad.response.new_hits[i].time - ad.request.existing_hits[j].time) >= 30000

\* C26: every bar selected for rescanning, named in an explicit target_bars list
\* or auto-selected as quiet, is probed with the base thresholds divided by
\* sensitivity_boost.
C26_SelectedBarsBoosted ==
    (ad.kind = "served" /\ ad.response.success /\ ad.request.target_bars # "all") =>
        \A i \in 1..Len(ad.response.new_hits) :
            ad.response.new_hits[i].threshold_used = "base / sensitivity_boost"

\* the k-th smallest value of a list, by rank
KthSmallest(s, k) ==
    CHOOSE x \in Range(s) :
        /\ Cardinality({i \in 1..Len(s) : s[i] < x}) < k
        /\ k <= Cardinality({i \in 1..Len(s) : s[i] <= x})

\* twice the median of a non-empty list, by rank
RankMedianX2(s) ==
    KthSmallest(s, (Len(s) + 1) \div 2) + KthSmallest(s, Len(s) \div 2 + 1)

\* the RMS values of the bars of the served response
ServedRms == [b \in 1..Len(ad.response.bar_energies) |-> ad.response.bar_energies[b].rms]

FilterDownbeat == 500

FilterBpm == 120000

FilterGenres == {"edm", "trap", "none"}

\* hits on the grid, slightly early or late, and off the grid
FilterHits ==
    {[time |-> t, type |-> ty, confidence |-> 70] :
        t \in {490, 500, 560, 875, 2490}, ty \in {"kick", "hihat"}}

InitFilter ==
    /\ InitPipe
    /\ cls = NoClassify
    /\ qz = NoQuantize
    /\ sw = NoSwing
    /\ InitExt

\* one call of filter_hits_by_pattern
FilterHitsByPattern ==
    /\ pf.kind = "none"
    /\ \E hs \in SeqsUpTo(FilterHits, MaxFilterHits), genre \in FilterGenres,
          tolerance_ms \in Tolerances :
          pf' = [kind |-> "filtered", hits |-> hs, bpm |-> FilterBpm,
                 downbeat_time |-> FilterDownbeat, time_signature |-> 4,
                 genre |-> genre, tolerance_ms |-> tolerance_ms,
                 filtered |-> filter_hits_by_pattern(hs, FilterBpm, FilterDownbeat, 4,
                                                     genre, tolerance_ms)]
    /\ UNCHANGED <<pipeVars, cls, qz, sw, mp, ad, gn, rq, sep, bb, dbl>>

NextFilter == FilterHitsByPattern

SpecFilter == InitFilter /\ [][NextFilter]_vars

\* the hit is within tolerance_ms of an expected position of its drum type in
\* some bar of the grid anchored at the first downbeat (times scaled by bpm)
NearExpectedPosition(hit, bpm, downbeat_time, time_signature, genre, tolerance_ms) ==
    \E bar \in 0..2, e \in ExpectedPositions(hit.type, genre) :
        Abs((hit.time - downbeat_time) * bpm
                - (bar * 60000000 * time_signature + e * 15000000)) <= tolerance_ms * bpm

\* C13: filter_hits_by_pattern keeps a hit if and only if its time is within
\* tolerance_ms of some expected position, for its drum type and the genre, in some
\* bar of the grid anchored at the first downbeat.
C13_KeepsExactlyNearExpected ==
    pf.kind = "filtered" =>
        pf.filtered = SelectSeq(pf.hits, LAMBDA h :
            NearExpectedPosition(h, pf.bpm, pf.downbeat_time, pf.time_signature,
                                 pf.genre, pf.tolerance_ms))

(***************************************************************************)
(* detect_genre on its own.  Tempi are milli-BPM, swing 1/100 percent and  *)
(* scores whole percents, as in the analysis passes.                       *)
(***************************************************************************)
\* below every genre window, trap only, pop/hip_hop/kpop, edm/afro_house/pop/kpop,
\* trap/kpop
GenreBpms == {50000, 70000, 100000, 125000, 140000}

GenreSwings == {4000, 5000, 5800, 7000}

GenreHits == {[time |-> 0, type |-> ty, confidence |-> 70] :
                 ty \in {"kick", "snare", "clap", "hihat"}}

InitGenre ==
    /\ InitPipe
    /\ cls = NoClassify
    /\ qz = NoQuantize
    /\ sw = NoSwing
    /\ InitExt

\* one call of detect_genre
DetectGenre ==
    /\ gn.kind = "none"
    /\ \E bpm \in GenreBpms, hs \in SeqsUpTo(GenreHits, MaxGenreHits), swing \in GenreSwings :
          gn' = [kind |-> "detected", bpm |-> bpm, hits |-> hs, swing |-> swing,
                 result |-> detect_genre(bpm, hs, swing)]
    /\ UNCHANGED <<pipeVars, cls, qz, sw, mp, ad, pf, rq, sep, bb, dbl>>

NextGenre == DetectGenre

SpecGenre == InitGenre /\ [][NextGenre]_vars

\* the highest score among the six genres, -1 outside every genre window
BestGenreScore(sc) ==
    Max(sc.edm, Max(sc.afro_house, Max(sc.trap, Max(sc.pop, Max(sc.hip_hop, sc.kpop)))))

\* C14: detect_genre returns the genre with the highest score among the six genres
\* only if that score is >= 0.5; when the best score is below 0.5, or the bpm is
\* outside every genre window, it returns the unknown result with confidence 0.
C14_GenreOnlyAboveThreshold ==
    gn.kind = "detected" =>
        LET sc == GenreScores(gn.bpm, gn.hits, gn.swing)
            best == BestGenreScore(sc)
        IN IF best >= 50
           THEN /\ gn.result.genre \in Range(GenreOrder)
                /\ sc[gn.result.genre] = best
                /\ gn.result.confidence = best
           ELSE /\ gn.result.genre = "none"
                /\ gn.result.confidence = 0

\* a call where a genre window holds the tempo but no score reaches 0.5
C14_Witness ==
    /\ gn.kind = "detected"
    /\ gn.result.genre = "none"
    /\ BestGenreScore(GenreScores(gn.bpm, gn.hits, gn.swing)) \in 0..49

(***************************************************************************)
(* One /analyze-rhythm request at the level of its temporary files: the    *)
(* upload, separate_drums_stem with its retries, the remaining stages, and *)
(* the cleanup.  rq.temp_file and rq.drums_file say whether the file is on *)
(* disk; rq.drums_path is the variable of analyze_rhythm (FALSE is None).  *)
(***************************************************************************)
max_retries == 2

\* the request from the moment the handler is entered
NewRequest(use_stem, apply_pattern_filter) ==
    [pc |-> "read", use_stem |-> use_stem, apply_pattern_filter |-> apply_pattern_filter,
     temp_file |-> FALSE, drums_file |-> FALSE,
     drums_path |-> FALSE, stem |-> "none", stem_status |-> "none", attempt |-> 0,
     attempts |-> 0, slept |-> <<>>, poll_count |-> 0, exit |-> "none",
     beat_duration |-> 0, downbeats |-> FALSE, any_hits |-> FALSE,
     raised_in |-> "none", result_hits |-> "none"]

\* return None, reason
StemReturnNone(r, reason) ==
    [r EXCEPT !.pc = "stages", !.stem = "failed", !.stem_status = reason]

\* continue: the next iteration of the for loop, or the return after the loop
StemNextAttempt(r) ==
    IF r.attempt < max_retries
    THEN [r EXCEPT !.attempt = @ + 1, !.pc = "attempt"]
    ELSE StemReturnNone(r, "Max retries exceeded")

\* variant of StemFailure that lets the failure of the last attempt propagate
StemFailureRaises(r, reason) ==
    IF r.attempt = max_retries
    THEN [r EXCEPT !.pc = "finally", !.stem = "raised", !.exit = "exception"]
    ELSE StemNextAttempt(r)

\* if attempt == max_retries: return None, reason; otherwise the loop goes on
StemFailure(r, reason) ==
    IF r.attempt = max_retries
    THEN StemReturnNone(r, reason)
    ELSE StemNextAttempt(r)

\* the start of an attempt: the backoff sleep of a retry
StemAttempt ==
    /\ rq.pc = "attempt"
    /\ rq' = [rq EXCEPT !.pc = "health",
                        !.attempts = @ + 1,
                        !.poll_count = 0,
                        !.slept = IF rq.attempt > 0 THEN Append(@, 2 ^ rq.attempt) ELSE @]
    /\ UNCHANGED <<pipeVars, cls, qz, sw, mp, ad, pf, gn, sep, bb, dbl>>

\* Step 1: GET /health
StemHealth ==
    /\ rq.pc = "health"
    /\ \E outcome \in {"healthy", "unhealthy", "client_error", "timeout"} :
          rq' = CASE outcome = "healthy" -> [rq EXCEPT !.pc = "readfile"]
                  [] outcome = "unhealthy" -> StemNextAttempt(rq)
                  [] outcome = "client_error" ->
                       StemFailure(rq, "Stem separator service unavailable")
                  [] OTHER -> StemFailure(rq, "Unexpected error")
    /\ UNCHANGED <<pipeVars, cls, qz, sw, mp, ad, pf, gn, sep, bb, dbl>>

\* Step 2: read the uploaded file
StemReadFile ==
    /\ rq.pc = "readfile"
    /\ \E ok \in BOOLEAN :
          rq' = IF ok THEN [rq EXCEPT !.pc = "upload"]
                ELSE StemReturnNone(rq, "Failed to read audio file")
    /\ UNCHANGED <<pipeVars, cls, qz, sw, mp, ad, pf, gn, sep, bb, dbl>>

\* Step 3: POST /separate
StemUpload ==
    /\ rq.pc = "upload"
    /\ \E outcome \in {"job", "rejected", "no_job_id", "client_error", "timeout"} :
          rq' = CASE outcome = "job" -> [rq EXCEPT !.pc = "poll"]
                  [] outcome = "rejected" -> StemFailure(rq, "Upload failed")
                  [] outcome = "no_job_id" -> StemFailure(rq, "No job ID returned")
                  [] outcome = "client_error" -> StemFailure(rq, "Connection error")
                  [] OTHER -> StemFailure(rq, "Unexpected error")
    /\ UNCHANGED <<pipeVars, cls, qz, sw, mp, ad, pf, gn, sep, bb, dbl>>

\* Step 4: one poll of the job, after a sleep of one second
StemPoll ==
    /\ rq.pc = "poll"
    /\ rq.poll_count < MaxPolls
    /\ \E outcome \in {"bad_status", "client_error", "processing", "completed",
                       "no_drums", "failed", "timeout"} :
          LET r == [rq EXCEPT !.poll_count = @ + 1]
          IN rq' = CASE outcome \in {"bad_status", "client_error", "processing"} -> r
                     [] outcome = "completed" -> [r EXCEPT !.pc = "download"]
                     [] outcome = "no_drums" ->
                          StemReturnNone(r, "No drums stem in separation result")
                     [] outcome = "failed" -> StemFailure(r, "Separation failed")
                     [] OTHER -> StemFailure(r, "Unexpected error")
    /\ UNCHANGED <<pipeVars, cls, qz, sw, mp, ad, pf, gn, sep, bb, dbl>>

\* the while loop ends without a completed job
StemPollTimeout ==
    /\ rq.pc = "poll"
    /\ rq.poll_count >= MaxPolls
    /\ rq' = StemFailure(rq, "Stem separation timed out")
    /\ UNCHANGED <<pipeVars, cls, qz, sw, mp, ad, pf, gn, sep, bb, dbl>>

\* Step 5: GET the drums stem and write it to TEMP_DIR
StemDownload ==
    /\ rq.pc = "download"
    /\ \E outcome \in {"saved", "bad_status", "client_error", "write_error"} :
          rq' = CASE outcome = "saved" -> [rq EXCEPT !.pc = "closing", !.drums_file = TRUE]
                  [] outcome = "bad_status" ->
                       StemReturnNone(rq, "Failed to download drums stem")
                  \* caught by the handler inside the polling loop: the polling goes on
                  [] outcome = "client_error" -> [rq EXCEPT !.pc = "poll"]
                  \* the file was created before the write failed
                  [] OTHER -> StemFailure([rq EXCEPT !.drums_file = TRUE], "Unexpected error")
    /\ UNCHANGED <<pipeVars, cls, qz, sw, mp, ad, pf, gn, sep, bb, dbl>>

\* return str(drums_path), ...: the response and the session are closed on the way
\* out, then analyze_rhythm assigns drums_path
StemClose ==
    /\ rq.pc = "closing"
    /\ rq' = [rq EXCEPT !.pc = "stages", !.stem = "path", !.drums_path = TRUE,
                        !.stem_status = "Drums stem separated successfully"]
    /\ UNCHANGED <<pipeVars, cls, qz, sw, mp, ad, pf, gn, sep, bb, dbl>>

\* POST /analyze-rhythm arrives
StartRequest ==
    /\ rq.pc = "idle"
    /\ \E use_stem \in BOOLEAN, apply_pattern_filter \in BOOLEAN :
          rq' = NewRequest(use_stem, apply_pattern_filter)
    /\ UNCHANGED <<pipeVars, cls, qz, sw, mp, ad, pf, gn, sep, bb, dbl>>

\* content = await audio.read(), then the upload is written to temp_path
WriteUpload ==
    /\ rq.pc = "read"
    /\ rq' = [rq EXCEPT !.pc = "stage1", !.temp_file = TRUE]
    /\ UNCHANGED <<pipeVars, cls, qz, sw, mp, ad, pf, gn, sep, bb, dbl>>

\* the median beat intervals (ms) of the beat grids handed to Stage 1: a grid of
\* distinct beats, and a grid most of whose beats coincide (the beats are only
\* required to be non-decreasing)
MedianIntervals == {0, 500}

\* load_audio and Stage 1, then Stage 2 if the stem was requested.  bpm is
\* 60.0 / median_interval, a numpy division: inf for the interval 0, so that the
\* beat duration 60 / bpm computed later is the median interval itself
BeatStage ==
    /\ rq.pc = "stage1"
    /\ \E median_interval \in MedianIntervals, downbeats \in BOOLEAN :
          LET r == [rq EXCEPT !.beat_duration = median_interval, !.downbeats = downbeats]
          IN rq' = IF rq.use_stem THEN [r EXCEPT !.pc = "attempt", !.stem = "running"]
                   ELSE [r EXCEPT !.pc = "stages"]
    /\ UNCHANGED <<pipeVars, cls, qz, sw, mp, ad, pf, gn, sep, bb, dbl>>

\* Stages 3 to 6: the hits of the beat-aligned detection (any_hits: some hit lies
\* at or after the first downbeat), swing and genre
RemainingStages ==
    /\ rq.pc = "stages"
    /\ \E any_hits \in BOOLEAN : rq' = [rq EXCEPT !.pc = "filter", !.any_hits = any_hits]
    /\ UNCHANGED <<pipeVars, cls, qz, sw, mp, ad, pf, gn, sep, bb, dbl>>

\* filter_hits_by_pattern raises ZeroDivisionError: 60 / bpm for bpm = 0, or the
\* float modulo by bar_duration = 0 at the first hit that is not before the downbeat
FilterRaises(r) ==
    r.any_hits /\ r.beat_duration = 0

\* Stage 7 and the response: the call of filter_hits_by_pattern is not inside any
\* handler, so what it raises leaves analyze_rhythm through the finally block
PatternFilterStage ==
    /\ rq.pc = "filter"
    /\ rq' = IF rq.apply_pattern_filter /\ rq.downbeats
             THEN IF FilterRaises(rq)
                  THEN [rq EXCEPT !.pc = "finally", !.exit = "exception",
                                  !.raised_in = "pattern_filter"]
                  ELSE [rq EXCEPT !.pc = "finally", !.exit = "return",
                                  !.result_hits = "filtered"]
             ELSE [rq EXCEPT !.pc = "finally", !.exit = "return",
                             !.result_hits = "unfiltered"]
    /\ UNCHANGED <<pipeVars, cls, qz, sw, mp, ad, pf, gn, sep, bb, dbl>>

\* a stage of analyze_rhythm raises (an unreadable file, a failing detector)
StageRaises ==
    /\ rq.pc \in {"stage1", "stages"}
    /\ rq' = [rq EXCEPT !.pc = "finally", !.exit = "exception", !.raised_in = "stage"]
    /\ UNCHANGED <<pipeVars, cls, qz, sw, mp, ad, pf, gn, sep, bb, dbl>>

\* the points where the request is suspended in an await
AtAwait ==
    \/ rq.pc \in {"read", "health", "upload", "poll", "download", "closing"}
    \/ rq.pc = "attempt" /\ rq.attempt > 0

\* the request task is cancelled: CancelledError is raised at the await and is
\* not an Exception, so no handler of separate_drums_stem catches it
CancelRequest ==
    /\ AtAwait
    /\ rq' = [rq EXCEPT !.pc = "finally", !.exit = "cancelled",
                        !.stem = IF @ = "running" THEN "cancelled" ELSE @]
    /\ UNCHANGED <<pipeVars, cls, qz, sw, mp, ad, pf, gn, sep, bb, dbl>>

\* the finally block of analyze_rhythm
Cleanup ==
    /\ rq.pc = "finally"
    /\ rq' = [rq EXCEPT !.pc = "done",
                        !.temp_file = FALSE,
                        !.drums_file = IF rq.drums_path THEN FALSE ELSE @]
    /\ UNCHANGED <<pipeVars, cls, qz, sw, mp, ad, pf, gn, sep, bb, dbl>>

InitRequest ==
    /\ InitPipe
    /\ cls = NoClassify
    /\ qz = NoQuantize
    /\ sw = NoSwing
    /\ InitExt

NextRequest ==
    \/ StartRequest
    \/ WriteUpload
    \/ BeatStage
    \/ StemAttempt
    \/ StemHealth
    \/ StemReadFile
    \/ StemUpload
    \/ StemPoll
    \/ StemPollTimeout
    \/ StemDownload
    \/ StemClose
    \/ RemainingStages
    \/ PatternFilterStage
    \/ StageRaises
    \/ CancelRequest
    \/ Cleanup

SpecRequest == InitRequest /\ [][NextRequest]_vars

\* every step of a request is eventually taken: the sessions carry total
\* timeouts (10 s health check, 300 s separation), the sleeps are finite and the
\* event loop resumes a coroutine whose await has completed
SpecRequestFair == SpecRequest /\ WF_vars(NextRequest)

\* C17: on every exit path of analyze_rhythm (return, exception, cancellation at an
\* await) the uploaded temporary file and any drums-stem file written by
\* separate_drums_stem have been deleted when the call ends.
C17_TempFilesDeleted ==
    rq.pc = "done" => (~rq.temp_file /\ ~rq.drums_file)

\* 2^1, 2^2, ...: the sleeps before retry 1, retry 2, ...
BackoffSleeps(n) == [k \in 1..n |-> 2 ^ k]

\* separate_drums_stem makes at most 1 + max_retries attempts, sleeps 2^k seconds
\* before retry k, and never lets a failure propagate
StemBounded ==
    rq.pc # "idle" =>
        /\ rq.attempts <= 1 + max_retries
        /\ rq.stem # "raised"
        /\ rq.slept = BackoffSleeps(Len(rq.slept))
        /\ rq.attempts > 0 => Len(rq.slept) = rq.attempts - 1
        /\ (rq.stem = "failed" => (~rq.drums_path /\ rq.stem_status # "none"))

\* C18: separate_drums_stem always terminates, after at most 1 + max_retries = 3
\* attempts, waits 2^k seconds before retry k, and when every attempt fails it
\* returns (None, reason) instead of raising.
C18_StemTerminatesBounded ==
    /\ []StemBounded
    /\ (rq.pc # "idle" /\ rq.stem = "running") ~> (rq.pc # "idle" /\ rq.stem # "running")

\* all three attempts were made and failed: the call returned (None, reason)
C18_Witness ==
    /\ rq.pc = "stages"
    /\ rq.stem = "failed"
    /\ rq.attempts = 1 + max_retries
    /\ rq.slept = <<2, 4>>

Models == {"htdemucs", "htdemucs_6s", "unknown"}

valid_models == {"htdemucs", "htdemucs_ft", "htdemucs_6s", "mdx_extra"}

\* the stems Demucs writes for a model
DemucsStems(model) ==
    IF model = "htdemucs_6s" THEN {"drums", "bass", "vocals", "guitar", "piano", "other"}
    ELSE {"drums", "bass", "vocals", "other"}

\* the multipart fields sent by the React frontend and by separate_drums_stem
FrontendForm == {"audio", "model"}

ClientForm == {"file", "model"}

\* POST /separate: the response, and the service after it.  The parameter audio
\* is required (File(...)): a form without it is answered 422 by the framework.
separate_stems(s, form, model) ==
    IF "audio" \notin form
    THEN [status |-> 422, body |-> [detail |-> "Field required"], sep |-> s]
    ELSE IF model \notin valid_models
    THEN [status |-> 400, body |-> [detail |-> "Invalid model"], sep |-> s]
    ELSE [status |-> 200,
          body |-> [job_id |-> "job", status |-> "pending", artifact_reduction |-> 0],
          sep |-> [s EXCEPT !.entry = TRUE, !.status = "pending", !.input_file = TRUE,
                            !.model = model, !.task = "start"]]

\* GET /jobs/{job_id}: JobStatus(job_id, status, progress, error, result); the
\* stems are inside result, a result that is None has none
get_job_status(s) ==
    IF ~s.entry
    THEN [status |-> 404, body |-> [detail |-> "Job not found"]]
    ELSE [status |-> 200,
          body |-> [job_id |-> "job", status |-> s.status,
                    progress |-> IF s.status \in {"pending", "processing"}
                                 THEN "running" ELSE "None",
                    error |-> IF s.status = "failed" THEN "error" ELSE "None",
                    result |-> [completed |-> s.status = "completed",
                                stems |-> {[name |-> n, filename |-> n \o ".mp3"] :
                                              n \in s.stems}]]]

\* GET /stems/{job_id}/{filename}
download_stem(s, filename) ==
    IF s.job_dir /\ filename \in {n \o ".mp3" : n \in s.files}
    THEN [status |-> 200, body |-> [file |-> filename]]
    ELSE [status |-> 404, body |-> [detail |-> "Stem file not found"]]

\* GET /health
health_check == [status |-> 200, body |-> [status |-> "ok"]]

\* the variables the stem separator leaves alone
notSep == <<pipeVars, cls, qz, sw, mp, ad, pf, gn, rq, bb, dbl>>

\* the frontend uploads a track: POST /separate queues process_separation
FrontendSeparate ==
    /\ sep.task = "none"
    /\ \E model \in Models : sep' = separate_stems(sep, FrontendForm, model).sep
    /\ UNCHANGED notSep

\* process_separation: separation_jobs[job_id]['status'] = 'processing'; the
\* KeyError of a missing entry is caught by the except clause of the function
TaskStart ==
    /\ sep.task = "start"
    /\ sep' = IF sep.entry THEN [sep EXCEPT !.status = "processing", !.task = "mkdir"]
              ELSE [sep EXCEPT !.task = "except"]
    /\ UNCHANGED notSep

\* job_dir.mkdir(exist_ok=True)
TaskMkdir ==
    /\ sep.task = "mkdir"
    /\ sep' = [sep EXCEPT !.job_dir = TRUE, !.task = "demucs"]
    /\ UNCHANGED notSep

\* run_demucs: Demucs writes the stems below job_dir (creating the directories
\* it needs), or fails
TaskDemucs ==
    /\ sep.task = "demucs"
    /\ \E ok \in BOOLEAN :
          sep' = IF ok THEN [sep EXCEPT !.job_dir = TRUE,
                                        !.demucs_out = DemucsStems(sep.model),
                                        !.task = "copy"]
                 ELSE [sep EXCEPT !.task = "except"]
    /\ UNCHANGED notSep

\* one round of the loop over stem_files (in the order glob listed them):
\* shutil.copy(stem_path, dest_path); a stem that is no longer on disk raises
\* FileNotFoundError
TaskCopy ==
    /\ sep.task = "copy"
    /\ \E stem_name \in DemucsStems(sep.model) \ sep.copied :
          sep' = IF stem_name \in sep.demucs_out
                 THEN [sep EXCEPT !.files = @ \cup {stem_name},
                                  !.copied = @ \cup {stem_name},
                                  !.task = IF sep.copied \cup {stem_name} =
                                                DemucsStems(sep.model)
                                           THEN "complete" ELSE "copy"]
                 ELSE [sep EXCEPT !.task = "except"]
    /\ UNCHANGED notSep

\* separation_jobs[job_id]['status'] = 'completed' and the result
TaskComplete ==
    /\ sep.task = "complete"
    /\ sep' = IF sep.entry
              THEN [sep EXCEPT !.status = "completed", !.stems = sep.copied,
                               !.task = "finally"]
              ELSE [sep EXCEPT !.task = "except"]
    /\ UNCHANGED notSep

\* except Exception: separation_jobs[job_id]['status'] = 'failed'; with the
\* entry missing the handler itself raises KeyError, which leaves the task
TaskExcept ==
    /\ sep.task = "except"
    /\ sep' = IF sep.entry THEN [sep EXCEPT !.status = "failed", !.task = "finally"]
              ELSE [sep EXCEPT !.raising = TRUE, !.task = "finally"]
    /\ UNCHANGED notSep

\* finally: os.unlink(input_path)
TaskFinally ==
    /\ sep.task = "finally"
    /\ sep' = [sep EXCEPT !.input_file = FALSE,
                          !.task = IF sep.raising THEN "crashed" ELSE "done"]
    /\ UNCHANGED notSep

\* DELETE /jobs/{job_id}: the entry and the directory are removed
cleanup_job ==
    /\ sep.task # "none"
    /\ sep' = [sep EXCEPT !.entry = FALSE, !.deleted = TRUE, !.job_dir = FALSE,
                          !.demucs_out = {}, !.files = {}]
    /\ UNCHANGED notSep

\* the cleanup timer finds the job older than JOB_EXPIRY_HOURS
cleanup_old_jobs ==
    /\ sep.entry
    /\ sep' = [sep EXCEPT !.entry = FALSE, !.deleted = TRUE, !.job_dir = FALSE,
                          !.demucs_out = {}, !.files = {}]
    /\ UNCHANGED notSep

InitService ==
    /\ InitPipe
    /\ cls = NoClassify
    /\ qz = NoQuantize
    /\ sw = NoSwing
    /\ InitExt

NextService ==
    \/ FrontendSeparate
    \/ TaskStart
    \/ TaskMkdir
    \/ TaskDemucs
    \/ TaskCopy
    \/ TaskComplete
    \/ TaskExcept
    \/ TaskFinally
    \/ cleanup_job
    \/ cleanup_old_jobs

SpecService == InitService /\ [][NextService]_vars

(***************************************************************************)
(* separate_drums_stem talking to the stem separator of this repository:   *)
(* each exchange is the client's request, the response the service         *)
(* computes for it, and the client's handling of that response.            *)
(***************************************************************************)
\* the handling of the response to GET /health
HandleHealth(r, resp) ==
    IF resp.status # 200 THEN StemNextAttempt(r) ELSE [r EXCEPT !.pc = "readfile"]

\* the handling of the response to POST /separate
HandleUpload(r, resp) ==
    IF resp.status # 200 THEN StemFailure(r, "Upload failed")
    ELSE IF "job_id" \notin DOMAIN resp.body THEN StemFailure(r, "No job ID returned")
    ELSE [r EXCEPT !.pc = "poll"]

\* the handling of the response to GET /jobs/{job_id}, poll_count already counted:
\* stems = status.get('stems', {}), drums_file = stems.get('drums')
HandlePoll(r, resp) ==
    IF resp.status # 200 THEN r
    ELSE LET job_status == resp.body.status
             stems == IF "stems" \in DOMAIN resp.body THEN resp.body.stems ELSE <<>>
         IN CASE job_status = "completed" ->
                   IF "drums" \in DOMAIN stems THEN [r EXCEPT !.pc = "download"]
                   ELSE StemReturnNone(r, "No drums stem in separation result")
              [] job_status = "failed" -> StemFailure(r, "Separation failed")
              [] OTHER -> r

\* the handling of the response to GET /stems/{job_id}/{drums_file}
HandleDownload(r, resp) ==
    IF resp.status = 200 THEN [r EXCEPT !.pc = "closing", !.drums_file = TRUE]
    ELSE StemReturnNone(r, "Failed to download drums stem")

\* the next HTTP exchange of separate_drums_stem with the service
ProtocolExchange ==
    /\ rq.pc \in {"health", "upload", "poll", "download"}
    /\ rq.pc = "poll" => rq.poll_count < MaxPolls
    /\ LET uploaded == separate_stems(sep, ClientForm, "htdemucs")
       IN /\ rq' = CASE rq.pc = "health" -> HandleHealth(rq, health_check)
                     [] rq.pc = "upload" -> HandleUpload(rq, uploaded)
                     [] rq.pc = "poll" ->
                          HandlePoll([rq EXCEPT !.poll_count = @ + 1], get_job_status(sep))
                     [] OTHER -> HandleDownload(rq, download_stem(sep, "drums.mp3"))
          /\ sep' = IF rq.pc = "upload" THEN uploaded.sep ELSE sep
    /\ UNCHANGED <<pipeVars, cls, qz, sw, mp, ad, pf, gn, bb, dbl>>

NextProtocol ==
    \/ StartRequest
    \/ WriteUpload
    \/ BeatStage
    \/ StemAttempt
    \/ StemReadFile
    \/ ProtocolExchange
    \/ NextService

SpecProtocol == InitService /\ [][NextProtocol]_vars

\* separate_drums_stem polling a job of the service
PollingClient ==
    [NewRequest(TRUE, TRUE) EXCEPT !.pc = "poll", !.temp_file = TRUE, !.stem = "running",
                                   !.attempts = 1, !.beat_duration = 500]

\* C22: the client and the stem service agree on the separation protocol: the
\* service accepts the upload separate_drums_stem sends, and when a job is
\* completed with a drums stem, the client finds the drums stem in the
\* job-status response and goes on to download it.
C22_ProtocolAgreement ==
    /\ rq.pc = "upload" => separate_stems(sep, ClientForm, "htdemucs").status = 200
    /\ (sep.entry /\ sep.status = "completed" /\ "drums" \in sep.stems) =>
           HandlePoll(PollingClient, get_job_status(sep)).pc = "download"

\* C30: under every interleaving of process_separation with DELETE /jobs/{id}
\* and cleanup_old_jobs, once the job has been deleted the background task does
\* not fail on the missing entry, and when it has finished no stems directory
\* of the job is left on disk.
C30_DeletedJobLeavesNothing ==
    (sep.deleted /\ sep.task \in {"done", "crashed"}) =>
        (sep.task = "done" /\ ~sep.job_dir)

(***************************************************************************)
(* Beat-aligned snare and clap detection on the grid of the downbeat       *)
(* tracker.  The tracker's rows are an input: the first tracked beat may   *)
(* carry any beat_position of the bar.  The detector selects the backbeats *)
(* by the index of the beat in the beats array.                            *)
(***************************************************************************)
MaxBackbeatBeats == 4

\* beat grids of the tracker with at least two beats
BackbeatGrids == UNION {BeatSeqsOfLen(n) : n \in 2..MaxBackbeatBeats}

\* snare: mid_energy > snare_threshold_adaptive, or the legacy condition, at
\* each backbeat candidate; clap: high_energy > clap_threshold_adaptive, the 35th
\* percentile of the candidates' own energies, which the lowest never exceeds
detect_backbeats(beats, time_signature, snare, clap) ==
    LET backbeats == BackbeatCandidates(beats, time_signature)
    IN [snare |-> snare \cap backbeats,
        clap |-> IF backbeats \subseteq clap THEN {} ELSE clap \cap backbeats]

\* detect_beats_madmom, then detect_drums_beat_aligned on beat_result.beats with
\* beat_result.time_signature (Stage 3 of /analyze-rhythm)
DetectBackbeats ==
    /\ bb.kind = "none"
    /\ \E bs \in BackbeatGrids, dbOk \in BOOLEAN, ts \in {3, 4}, phase \in 0..3 :
          /\ phase < ts
          /\ ~dbOk => (ts = 4 /\ phase = 0)
          /\ LET b == detect_beats_madmom(bs, 8000, dbOk, ts, phase)
                 times == {bs[i] : i \in 1..Len(bs)}
             IN \E snare \in SUBSET times, clap \in SUBSET times :
                   /\ snare \subseteq BackbeatCandidates(b.beats, b.time_signature)
                   /\ clap \subseteq BackbeatCandidates(b.beats, b.time_signature)
                   /\ bb' = [kind |-> "detected", beat_result |-> b,
                             results |-> detect_backbeats(b.beats, b.time_signature,
                                                          snare, clap)]
    /\ UNCHANGED <<pipeVars, cls, qz, sw, mp, ad, pf, gn, rq, sep, dbl>>

InitBackbeat ==
    /\ InitPipe
    /\ cls = NoClassify
    /\ qz = NoQuantize
    /\ sw = NoSwing
    /\ InitExt

NextBackbeat == DetectBackbeats

SpecBackbeat == InitBackbeat /\ [][NextBackbeat]_vars

\* the beat_position the grid's downbeats give to the beat at time t
PositionsAt(downbeats, t) ==
    {downbeats[j].beat_position : j \in {k \in 1..Len(downbeats) : downbeats[k].time = t}}

\* C28: in 4/4, every snare and clap hit of the beat-aligned detection lies on a
\* beat whose row in the grid's downbeats has beat_position 2 or 4, whatever the
\* beat_position of the first tracked beat
C28_BackbeatsOnBeats2And4 ==
    (bb.kind = "detected" /\ bb.beat_result.time_signature = 4) =>
        \A t \in bb.results.snare \cup bb.results.clap :
            PositionsAt(bb.beat_result.downbeats, t) \subseteq {2, 4}

(***************************************************************************)
(* Half-time doubling of a beat grid.  The grid is an input: any beat      *)
(* sequence of the data model, repeated beat times included.               *)
(***************************************************************************)
MaxDoubledBeats == 4

\* intervals between consecutive beats of the input (ms); 0 repeats a beat time
DoubledGaps == {0, 480, 720}

RECURSIVE NonDecreasingBeats(_)
\* the non-decreasing beat sequences of n beats, first beat at 0
NonDecreasingBeats(n) ==
    IF n = 0 THEN {<<>>}
    ELSE IF n = 1 THEN {<<0>>}
    ELSE {Append(s, s[Len(s)] + g) : s \in NonDecreasingBeats(n - 1), g \in DoubledGaps}

DoublingInputs == UNION {NonDecreasingBeats(n) : n \in 0..MaxDoubledBeats}

\* tempi (milli-BPM) and confidences (1/10000) on both sides of the rules' tests
DoublingBpms == {60000, 80000, 120000}

DoublingConfs == {3000, 4990, 8000}

StrictlyIncreasing(bs) == \A i \in 1..(Len(bs) - 1) : bs[i] < bs[i + 1]

\* correct_half_time_spectral on the BeatResult of detect_beats_librosa
DoubleSpectral ==
    /\ dbl.kind = "none"
    /\ \E bs \in DoublingInputs, bpm \in DoublingBpms, conf \in DoublingConfs,
          dense \in BOOLEAN :
          LET raw == [bpm |-> bpm, bpm_confidence |-> conf, beats |-> bs,
                      downbeats |-> IndexDownbeats(bs), time_signature |-> 4]
              b == correct_half_time_spectral(raw, dense)
          IN dbl' = [kind |-> "spectral", doubled |-> SpectralRule(raw, dense) \in {"A", "B"},
                     input |-> bs, beats |-> b.beats, downbeats |-> b.downbeats]
    /\ UNCHANGED <<pipeVars, cls, qz, sw, mp, ad, pf, gn, rq, sep, bb>>

\* correct_half_time_beats on the grid of detect_beats (Step 1b of the ai and steps passes)
DoubleBeats ==
    /\ dbl.kind = "none"
    /\ \E bs \in DoublingInputs, bpm \in DoublingBpms \cup {89999, 90000} :
          LET c == correct_half_time_beats(bpm, bs, IndexDownbeats(bs))
          IN dbl' = [kind |-> "beats", doubled |-> bpm < 90000,
                     input |-> bs, beats |-> c.beats, downbeats |-> c.downbeats]
    /\ UNCHANGED <<pipeVars, cls, qz, sw, mp, ad, pf, gn, rq, sep, bb>>

InitDoubling ==
    /\ InitPipe
    /\ cls = NoClassify
    /\ qz = NoQuantize
    /\ sw = NoSwing
    /\ InitExt

NextDoubling == DoubleSpectral \/ DoubleBeats

SpecDoubling == InitDoubling /\ [][NextDoubling]_vars

\* C29: after a half-time doubling the beats are strictly increasing and the
\* first downbeat is at or before the first beat, for every non-decreasing input
C29_DoubledGridOrdered ==
    (dbl.kind # "none" /\ dbl.doubled) =>
        /\ StrictlyIncreasing(dbl.beats)
        /\ (Len(dbl.downbeats) > 0 /\ Len(dbl.beats) > 0) =>
               dbl.downbeats[1].time <= dbl.beats[1]

====
